---- MODULE Spec2Model ----
(***************************************************************************)
(* The table actor of party/blackjack.ts (class BlackjackServer) together  *)
(* with the pure helpers of src/lib/gameTypes.ts.                          *)
(*                                                                         *)
(* One action per event of the table: a client message (onMessage ->       *)
(* handleMessage -> handleX), a connection close (onClose) and the alarm   *)
(* (onAlarm).  An action is the whole handler: the synchronous part, the   *)
(* async calls it starts and the continuations after their awaited         *)
(* storage / alarm operations, in the order the microtask queue runs them. *)
(* Time is a two-point clock on the betting deadline, the one deadline a    *)
(* message re-arms while it runs: all of its duration is left (as armed),  *)
(* or some of it has passed (Tick), and only then may it fire.  Any other  *)
(* pending alarm may fire at any moment after it was armed.                *)
(* A card is [rank, faceUp]; suits are never read by the server.  The shoe  *)
(* is the sequence of its ranks in the order pop() returns them, and a     *)
(* shuffle picks one of the arrangements of Arrangements.  The spectator   *)
(* list, the chat and the strategy and blackjack statistics are display    *)
(* data no handler reads back; they are left out.                          *)
(***************************************************************************)
EXTENDS Integers, Sequences, FiniteSets, TLC

\* ------------------------------------------------------------------ bounds
NumSeats == 2          \* seats of the table (6 in the source, scaled down)
NumSuits == 1          \* suits per deck (4 in the source, scaled down)
INITIAL_CHIPS == 3     \* starting stake (10000 in the source, scaled down)
MaxRounds == 1         \* betting closes with bets at most this many times
MaxNegBet == 1         \* clients stop sending negative amounts below this (negated) bet
MaxMoves == 3          \* seats are taken or given up at most this many times

\* ------------------------------------------------------- program constants
BETTING_TIME == 5000
TURN_TIME == 10000
PAYOUT_TIME == 2000
DEALER_CARD_DELAY == 400
DEALING_DELAY == 500
InitialDecks == 2
ReshuffleDecks == 6
MaxHands == 4

\* ------------------------------------------------------------ input sets
Conns == {"c1", "c2"}
Names == {"ann", "bob"}
NamesOf(c) == IF c = "c1" THEN {"ann"} ELSE Names   \* the names a connection signs in with
BadName == ""
Ranks == {"A", "6", "K"}
\* The orders shuffleArray may leave two one-suit decks in, first card out first.
\* With one bettor the cards go player, dealer, player, hole; with two they go
\* seat, seat, dealer, seat, seat, hole.
Arrangements ==
    { << "A", "A", "K", "K", "6", "6" >>,   \* blackjack against an ace-up blackjack
      << "6", "A", "6", "A", "K", "K" >>,   \* a pair of sixes against ace, ace
      << "K", "6", "K", "6", "A", "A" >>,   \* a pair of kings; king-up blackjack for two
      << "6", "A", "K", "K", "6", "A" >>,   \* sixteen against an ace-up blackjack
      << "6", "6", "A", "K", "A", "K" >>,   \* soft 17 against sixteen; ace-up blackjack for two
      << "6", "6", "A", "K", "K", "A" >>,   \* dealer busts; ace, ace against two sixteens
      << "K", "6", "6", "A", "K", "A" >>,   \* sixteen against soft 17, a king next
      << "A", "K", "K", "A", "6", "6" >> }  \* king-up blackjack; a pair of aces for two
\* The orders a shoe shuffled anew by reshuffleShoe comes out in.
Rearrangements ==
    { << "A", "A", "K", "K", "6", "6" >>,
      << "6", "K", "A", "6", "K", "A" >> }
BetAmounts == {-1, 0, 1, 2}
SeatIdx == 0 .. (NumSeats - 1)
JoinIdx == -1 .. NumSeats
JoinIdxOf(c) == IF c = "c1" THEN -1 .. 0 ELSE JoinIdx   \* the seats a connection asks for
NULL == "null"
NoTime == <<>>

VARIABLES
    phase, shoe, cutCardIndex, needsReshuffle, dealerHand, seats,
    activePlayerIndex, activeHandIndex, timer, timerEndTime,
    chipBalances, runningCount,            \* this.state (GameState)
    timerCallback,                         \* this.timerCallback
    atmUsage,                              \* this.atmUsage, stored at every change
    alarm,                                 \* room.storage alarm (durable): <<duration>>
                                           \* as armed, <<duration, 0>> once time passed
                                           \* on it (Tick)
    storedBalances,                        \* room.storage "chipBalances" (durable)
    payoutRuns,                            \* history: calculatePayouts runs since betting began
    rounds,                                \* history: rounds dealt so far
    ledger,                                \* history: per-seat stakes and credits of the round,
                                           \* and whether the seat has sent its insurance
                                           \* decision in the insurance phase that is on
    lastEvent,                             \* history: the entry point that ran last
    moves                                  \* history: seats taken or given up so far

vars == << phase, shoe, cutCardIndex, needsReshuffle, dealerHand, seats,
           activePlayerIndex, activeHandIndex, timer, timerEndTime,
           chipBalances, runningCount, timerCallback, atmUsage, alarm,
           storedBalances, payoutRuns, rounds, ledger, lastEvent, moves >>

\* The table state a client can observe or a handler can corrupt.
tableVars == << phase, shoe, cutCardIndex, needsReshuffle, dealerHand, seats,
                activePlayerIndex, activeHandIndex, timer, timerEndTime,
                chipBalances, runningCount, timerCallback, atmUsage, alarm >>

\* ------------------------------------------------------------ gameTypes.ts
\* A faulty Min: the first argument, whatever the second.
Min_First(a, b) == a

Min(a, b) == IF a < b THEN a ELSE b

\* the function f restricted to S, built pair by pair
RECURSIVE Pairs(_, _)
Pairs(f, S) ==
    IF S = {} THEN <<>>
    ELSE LET x == CHOOSE y \in S : TRUE
         IN  (x :> f[x]) @@ Pairs(f, S \ {x})

\* the function x \in S |-> F(x)
MakeFcn(S, F(_)) == Pairs([x \in S |-> F(x)], S)

\* one value per seat of the table
EachSeat(F(_)) == MakeFcn(0 .. (NumSeats - 1), F)

TenValues == {"10", "J", "Q", "K"}

RankValue(r) ==
    IF r = "A" THEN 11
    ELSE IF r \in {"K", "Q", "J", "10"} THEN 10
    ELSE IF r = "2" THEN 2 ELSE IF r = "3" THEN 3 ELSE IF r = "4" THEN 4
    ELSE IF r = "5" THEN 5 ELSE IF r = "6" THEN 6 ELSE IF r = "7" THEN 7
    ELSE IF r = "8" THEN 8 ELSE 9

RECURSIVE RawTotal(_)
RawTotal(cards) ==
    IF cards = <<>> THEN 0
    ELSE (IF Head(cards).faceUp THEN RankValue(Head(cards).rank) ELSE 0)
         + RawTotal(Tail(cards))

RECURSIVE AceCount(_)
AceCount(cards) ==
    IF cards = <<>> THEN 0
    ELSE (IF Head(cards).faceUp /\ Head(cards).rank = "A" THEN 1 ELSE 0)
         + AceCount(Tail(cards))

RECURSIVE SoftenAces(_, _)
SoftenAces(total, aces) ==
    IF total > 21 /\ aces > 0 THEN SoftenAces(total - 10, aces - 1) ELSE total

calculateHandValue(cards) == SoftenAces(RawTotal(cards), AceCount(cards))

isBlackjack(cards) ==
    /\ Len(cards) = 2
    /\ \E k \in 1 .. 2 : cards[k].rank = "A"
    /\ \E k \in 1 .. 2 : cards[k].rank \in TenValues

\* A faulty canSplit: a hand that came out of a split may be split again.
canSplit_Resplits(hand) ==
    /\ Len(hand.cards) = 2
    /\ \/ hand.cards[1].rank = hand.cards[2].rank
       \/ hand.cards[1].rank \in TenValues /\ hand.cards[2].rank \in TenValues

canSplit(hand) ==
    /\ Len(hand.cards) = 2
    /\ ~hand.isSplit
    /\ \/ hand.cards[1].rank = hand.cards[2].rank
       \/ hand.cards[1].rank \in TenValues /\ hand.cards[2].rank \in TenValues

canDouble(hand) == Len(hand.cards) = 2 /\ ~hand.isDoubled

createEmptySeat ==
    [playerId |-> NULL, displayName |-> "", chips |-> 0, bet |-> 0, lastBet |-> 0,
     insuranceBet |-> 0, hands |-> <<>>, status |-> "empty"]

RECURSIVE Repeat(_, _)
Repeat(seq, n) == IF n <= 0 THEN <<>> ELSE seq \o Repeat(seq, n - 1)

\* createShoe: the shuffled shoes of numDecks decks
createShoe(numDecks) ==
    { Repeat(a, (numDecks * NumSuits) \div 2)
      : a \in (IF numDecks = InitialDecks THEN Arrangements ELSE Rearrangements) }

NoBalances == <<>>
NoLedger == [owner |-> NULL, start |-> 0, expected |-> 0, decided |-> FALSE]
NoEvent == "none"

\* createInitialGameState plus the field initialisers of BlackjackServer.
InitialWorld(newShoe) ==
    [phase |-> "waiting",
     shoe |-> newShoe,
     cutCardIndex |-> (Len(newShoe) * 75) \div 100,
     needsReshuffle |-> FALSE,
     dealerHand |-> <<>>,
     seats |-> EachSeat(LAMBDA i : createEmptySeat),
     activePlayerIndex |-> -1,
     activeHandIndex |-> 0,
     timer |-> 0,
     timerEndTime |-> NoTime,
     chipBalances |-> NoBalances,
     runningCount |-> 0,
     timerCallback |-> NULL,
     atmUsage |-> NoBalances,
     alarm |-> NoTime,
     storedBalances |-> NoBalances,
     payoutRuns |-> 0,
     rounds |-> 0,
     ledger |-> EachSeat(LAMBDA i : NoLedger),
     lastEvent |-> NoEvent,
     moves |-> 0]

\* The current state as one record, and the assignment of one to the next state.
World ==
    [phase |-> phase, shoe |-> shoe, cutCardIndex |-> cutCardIndex,
     needsReshuffle |-> needsReshuffle, dealerHand |-> dealerHand, seats |-> seats,
     activePlayerIndex |-> activePlayerIndex, activeHandIndex |-> activeHandIndex,
     timer |-> timer, timerEndTime |-> timerEndTime,
     chipBalances |-> chipBalances, runningCount |-> runningCount,
     timerCallback |-> timerCallback, atmUsage |-> atmUsage, alarm |-> alarm,
     storedBalances |-> storedBalances, payoutRuns |-> payoutRuns, rounds |-> rounds,
     ledger |-> ledger, lastEvent |-> lastEvent, moves |-> moves]

Become(W) ==
    /\ phase' = W.phase
    /\ shoe' = W.shoe
    /\ cutCardIndex' = W.cutCardIndex
    /\ needsReshuffle' = W.needsReshuffle
    /\ dealerHand' = W.dealerHand
    /\ seats' = W.seats
    /\ activePlayerIndex' = W.activePlayerIndex
    /\ activeHandIndex' = W.activeHandIndex
    /\ timer' = W.timer
    /\ timerEndTime' = W.timerEndTime
    /\ chipBalances' = W.chipBalances
    /\ runningCount' = W.runningCount
    /\ timerCallback' = W.timerCallback
    /\ atmUsage' = W.atmUsage
    /\ alarm' = W.alarm
    /\ storedBalances' = W.storedBalances
    /\ payoutRuns' = W.payoutRuns
    /\ rounds' = W.rounds
    /\ ledger' = W.ledger
    /\ lastEvent' = W.lastEvent
    /\ moves' = W.moves

Then(WS, F(_)) == UNION { F(w) : w \in WS }

Put(f, k, v) == (k :> v) @@ f

Occupied(W) == { i \in SeatIdx : W.seats[i].playerId # NULL }

\* seats.findIndex(s => s.playerId === id)
SeatOf(W, c) ==
    IF \E i \in SeatIdx : W.seats[i].playerId = c
    THEN CHOOSE i \in SeatIdx :
            /\ W.seats[i].playerId = c
            /\ \A j \in SeatIdx : W.seats[j].playerId = c => i <= j
    ELSE -1

\* ------------------------------------------------------------ timer / alarm
\* clearTimer: forget the callback, delete the alarm, then null the deadline.
ClearTimer(W) ==
    [W EXCEPT !.timerCallback = NULL, !.alarm = NoTime,
              !.timerEndTime = NoTime, !.timer = 0]

\* startTimer: clearTimer (which also nulls state.timerEndTime), then remember the
\* callback and set the alarm.
StartTimer(W, duration, callback) ==
    [ClearTimer(W) EXCEPT !.timerCallback = callback, !.alarm = <<duration>>]

\* ------------------------------------------------------------------- shoe
reshuffleShoe(W) ==
    { [W EXCEPT !.shoe = newShoe,
                !.cutCardIndex = (Len(newShoe) * 80) \div 100,
                !.needsReshuffle = FALSE,
                !.runningCount = 0]
      : newShoe \in createShoe(ReshuffleDecks) }

CountDelta(r) ==
    IF r \in {"2", "3", "4", "5", "6"} THEN 1
    ELSE IF r \in {"10", "J", "Q", "K", "A"} THEN -1 ELSE 0

\* A faulty drawCard: the shoe is shuffled anew as soon as the cut card is out.
drawCard_ReshufflesAtCut(W) ==
    { LET r == Head(W1.shoe)
          left == Tail(W1.shoe)
      IN  [w |-> [W1 EXCEPT !.shoe = left,
                            !.runningCount = @ + CountDelta(r),
                            !.needsReshuffle =
                                IF Len(left) <= W1.cutCardIndex THEN TRUE ELSE @],
           card |-> [rank |-> r, faceUp |-> TRUE]]
      : W1 \in (IF Len(W.shoe) = 0 \/ W.needsReshuffle THEN reshuffleShoe(W) ELSE { W }) }

\* drawCard: every outcome [w, card] of popping the shoe (more than one only when
\* the shoe is empty and shuffled anew).
drawCard(W) ==
    { LET r == Head(W1.shoe)
          left == Tail(W1.shoe)
      IN  [w |-> [W1 EXCEPT !.shoe = left,
                            !.runningCount = @ + CountDelta(r),
                            !.needsReshuffle =
                                IF Len(left) <= W1.cutCardIndex THEN TRUE ELSE @],
           card |-> [rank |-> r, faceUp |-> TRUE]]
      : W1 \in (IF Len(W.shoe) = 0 THEN reshuffleShoe(W) ELSE { W }) }

\* hand.cards.push(drawCard()) on hand h (1-based) of seat i
DealToHand(W, i, h) ==
    { [d.w EXCEPT !.seats[i].hands[h].cards = Append(@, d.card)] : d \in drawCard(W) }

\* dealerHand.push(drawCard()), the card turned face-down when up is FALSE
DealToDealer(W, up) ==
    { [d.w EXCEPT !.dealerHand = Append(@, [d.card EXCEPT !.faceUp = up])]
      : d \in drawCard(W) }

\* ------------------------------------------------------------ round start
AutoBets(W, i) == W.seats[i].lastBet > 0 /\ W.seats[i].chips > 0

BettingPhaseOn(W1) ==
    LET anyBetsPlaced == \E i \in Occupied(W1) : AutoBets(W1, i)
        W2 == [W1 EXCEPT
                 !.seats = EachSeat(LAMBDA i :
                     IF W1.seats[i].playerId # NULL
                     THEN IF AutoBets(W1, i)
                          THEN [W1.seats[i] EXCEPT
                                  !.hands = <<>>,
                                  !.bet = Min(W1.seats[i].lastBet, W1.seats[i].chips),
                                  !.status = "betting"]
                          ELSE [W1.seats[i] EXCEPT
                                  !.hands = <<>>, !.bet = 0, !.status = "waiting"]
                     ELSE W1.seats[i]),
                 !.dealerHand = <<>>,
                 !.phase = "betting",
                 !.activePlayerIndex = -1,
                 !.activeHandIndex = 0,
                 !.payoutRuns = 0,
                 !.ledger = EachSeat(LAMBDA i : NoLedger)]
    IN  IF anyBetsPlaced
        THEN StartTimer(W2, BETTING_TIME, "onBettingEnd")
        ELSE [W2 EXCEPT !.timerEndTime = NoTime, !.timer = 0]

startBettingPhase(W) ==
    { BettingPhaseOn(W1) : W1 \in (IF W.needsReshuffle THEN reshuffleShoe(W) ELSE { W }) }

checkGameState(W) ==
    IF Occupied(W) = {}
    THEN { ClearTimer([W EXCEPT !.phase = "waiting"]) }
    ELSE IF W.phase = "waiting" THEN startBettingPhase(W) ELSE { W }

\* ------------------------------------------------------------ turn engine
HasPlaying(seat) == \E h \in 1 .. Len(seat.hands) : seat.hands[h].status = "playing"

\* findNextActivePlayer: first seat after currentIndex with a playing hand, or -1
findNextActivePlayer(W, currentIndex) ==
    LET cand == { i \in SeatIdx : /\ i > currentIndex
                                  /\ W.seats[i].playerId # NULL
                                  /\ Len(W.seats[i].hands) > 0
                                  /\ HasPlaying(W.seats[i]) }
    IN  IF cand = {} THEN -1
        ELSE CHOOSE i \in cand : \A j \in cand : i <= j

\* index (0-based) of the first playing hand of a seat, or dflt
FirstPlaying(seat, from, dflt) ==
    LET cand == { h \in from .. (Len(seat.hands) - 1) : seat.hands[h + 1].status = "playing" }
    IN  IF cand = {} THEN dflt
        ELSE CHOOSE h \in cand : \A g \in cand : h <= g

\* A faulty HandPayout: a blackjack is paid like any other win.
HandPayout_BlackjackEven(hand, dealer) ==
    LET dealerValue == calculateHandValue(dealer)
        dealerBusted == dealerValue > 21
        dealerBlackjack == isBlackjack(dealer)
        playerValue == calculateHandValue(hand.cards)
        playerBlackjack == hand.status = "blackjack"
    IN  IF hand.status = "busted" THEN 0
        ELSE IF hand.status = "surrendered" THEN 0
        ELSE IF playerBlackjack /\ dealerBlackjack THEN hand.bet
        ELSE IF playerBlackjack THEN hand.bet * 2
        ELSE IF dealerBlackjack THEN 0
        ELSE IF dealerBusted THEN hand.bet * 2
        ELSE IF playerValue > dealerValue THEN hand.bet * 2
        ELSE IF playerValue = dealerValue THEN hand.bet
        ELSE 0

\* the amount calculatePayouts adds to seat.chips for one hand
HandPayout(hand, dealer) ==
    LET dealerValue == calculateHandValue(dealer)
        dealerBusted == dealerValue > 21
        dealerBlackjack == isBlackjack(dealer)
        playerValue == calculateHandValue(hand.cards)
        playerBlackjack == hand.status = "blackjack"
    IN  IF hand.status = "busted" THEN 0
        ELSE IF hand.status = "surrendered" THEN 0
        ELSE IF playerBlackjack /\ dealerBlackjack THEN hand.bet
        ELSE IF playerBlackjack THEN hand.bet + (hand.bet * 3) \div 2
        ELSE IF dealerBlackjack THEN 0
        ELSE IF dealerBusted THEN hand.bet * 2
        ELSE IF playerValue > dealerValue THEN hand.bet * 2
        ELSE IF playerValue = dealerValue THEN hand.bet
        ELSE 0

RECURSIVE SeatPayout(_, _)
SeatPayout(hands, dealer) ==
    IF hands = <<>> THEN 0
    ELSE HandPayout(Head(hands), dealer) + SeatPayout(Tail(hands), dealer)

\* the seat loop of calculatePayouts, seats i .. NumSeats-1
RECURSIVE SettleSeats(_, _)
SettleSeats(W, i) ==
    IF i >= NumSeats THEN W
    ELSE IF W.seats[i].playerId = NULL THEN SettleSeats(W, i + 1)
    ELSE LET won == SeatPayout(W.seats[i].hands, W.dealerHand)
             chips == W.seats[i].chips + won
         IN  SettleSeats(
                 [W EXCEPT !.seats[i].chips = chips,
                           !.chipBalances = Put(@, W.seats[i].displayName, chips)],
                 i + 1)

\* A faulty calculatePayouts: the balances are not written to the storage.
calculatePayouts_NoFlush(W) ==
    LET W1 == SettleSeats([W EXCEPT !.phase = "payout", !.payoutRuns = @ + 1], 0)
        W2 == [W1 EXCEPT !.timerEndTime = <<PAYOUT_TIME>>]
    IN  StartTimer(W2, PAYOUT_TIME, "afterPayout")

calculatePayouts(W) ==
    LET W1 == SettleSeats([W EXCEPT !.phase = "payout", !.payoutRuns = @ + 1], 0)
        W2 == [W1 EXCEPT !.storedBalances = W1.chipBalances,
                         !.timerEndTime = <<PAYOUT_TIME>>]
    IN  StartTimer(W2, PAYOUT_TIME, "afterPayout")

\* the callback calculatePayouts arms
afterPayout(W) ==
    IF \E i \in Occupied(W) : W.seats[i].chips > 0
    THEN startBettingPhase(W)
    ELSE checkGameState([W EXCEPT !.phase = "waiting"])

\* A faulty playDealerHand: the dealer draws on 17.
playDealerHand_HitsOn17(W) ==
    IF calculateHandValue(W.dealerHand) >= 18
    THEN { StartTimer(W, DEALER_CARD_DELAY, "calculatePayouts") }
    ELSE { StartTimer(w, DEALER_CARD_DELAY, "playDealerHand") : w \in DealToDealer(W, TRUE) }

\* playDealerHand: one step of the dealer's play; the next one is an alarm away
playDealerHand(W) ==
    IF calculateHandValue(W.dealerHand) >= 17
    THEN { StartTimer(W, DEALER_CARD_DELAY, "calculatePayouts") }
    ELSE { StartTimer(w, DEALER_CARD_DELAY, "playDealerHand") : w \in DealToDealer(W, TRUE) }

\* A faulty StillIn: a standing hand does not make the dealer play.
StillIn_BlackjackOnly(seat) ==
    \E h \in 1 .. Len(seat.hands) : seat.hands[h].status = "blackjack"

StillIn(seat) ==
    \E h \in 1 .. Len(seat.hands) : seat.hands[h].status \in {"standing", "blackjack"}

\* A faulty DealerTurnBody: the return after calculatePayouts is missing, so the
\* dealer's play goes on after the hands are settled.
DealerTurnBody_NoReturn(W) ==
    LET W1 == [W EXCEPT !.phase = "dealer_turn",
                        !.activePlayerIndex = -1,
                        !.dealerHand = IF Len(@) >= 2
                                       THEN [@ EXCEPT ![2].faceUp = TRUE] ELSE @]
    IN  IF \A i \in Occupied(W1) : ~StillIn(W1.seats[i])
        THEN playDealerHand(calculatePayouts(W1))
        ELSE playDealerHand(W1)

\* startDealerTurn after its first await (clearTimer)
DealerTurnBody(W) ==
    LET W1 == [W EXCEPT !.phase = "dealer_turn",
                        !.activePlayerIndex = -1,
                        !.dealerHand = IF Len(@) >= 2
                                       THEN [@ EXCEPT ![2].faceUp = TRUE] ELSE @]
    IN  IF \A i \in Occupied(W1) : ~StillIn(W1.seats[i])
        THEN { calculatePayouts(W1) }
        ELSE playDealerHand(W1)

startDealerTurn(W) == DealerTurnBody(ClearTimer(W))

\* A faulty nextPlayerOrHand: the seats after the active one are not looked at.
nextPlayerOrHand_DealerAfterSeat(W) ==
    LET api == W.activePlayerIndex
        seat == W.seats[api]
        nextHand == FirstPlaying(seat, W.activeHandIndex + 1, -1)
    IN  IF nextHand # -1
        THEN { StartTimer([W EXCEPT !.activeHandIndex = nextHand,
                                    !.timerEndTime = <<TURN_TIME>>,
                                    !.timer = TURN_TIME],
                          TURN_TIME, "onTurnTimeout") }
        ELSE startDealerTurn([W EXCEPT !.seats[api].status = "done",
                                       !.activePlayerIndex = -1,
                                       !.activeHandIndex = 0])

nextPlayerOrHand(W) ==
    LET api == W.activePlayerIndex
        seat == W.seats[api]
        nextHand == FirstPlaying(seat, W.activeHandIndex + 1, -1)
    IN  IF nextHand # -1
        THEN { StartTimer([W EXCEPT !.activeHandIndex = nextHand,
                                    !.timerEndTime = <<TURN_TIME>>,
                                    !.timer = TURN_TIME],
                          TURN_TIME, "onTurnTimeout") }
        ELSE LET W1 == [W EXCEPT !.seats[api].status = "done"]
                 nxt == findNextActivePlayer(W1, api)
                 W2 == [W1 EXCEPT !.activePlayerIndex = nxt, !.activeHandIndex = 0]
             IN  IF nxt = -1
                 THEN startDealerTurn(W2)
                 ELSE { StartTimer([W2 EXCEPT
                                      !.activeHandIndex = FirstPlaying(W2.seats[nxt], 0, 0),
                                      !.timerEndTime = <<TURN_TIME>>,
                                      !.timer = TURN_TIME],
                                   TURN_TIME, "onTurnTimeout") }

startPlayerTurns(W) ==
    LET nxt == findNextActivePlayer(W, -1)
        W1 == [W EXCEPT !.phase = "player_turn",
                        !.activeHandIndex = 0,
                        !.activePlayerIndex = nxt,
                        !.ledger = EachSeat(LAMBDA i : [W.ledger[i] EXCEPT !.decided = FALSE])]
    IN  IF nxt = -1
        THEN startDealerTurn(W1)
        ELSE { StartTimer([W1 EXCEPT !.timerEndTime = <<TURN_TIME>>, !.timer = TURN_TIME],
                          TURN_TIME, "onTurnTimeout") }

\* A faulty onTurnTimeout: the hand that ran out of time is lost.
onTurnTimeout_Busts(W) ==
    LET api == W.activePlayerIndex
        ahi == W.activeHandIndex
    IN  IF api \in SeatIdx /\ ahi + 1 \in 1 .. Len(W.seats[api].hands)
        THEN nextPlayerOrHand([W EXCEPT !.seats[api].hands[ahi + 1].status = "busted"])
        ELSE { W }

onTurnTimeout(W) ==
    LET api == W.activePlayerIndex
        ahi == W.activeHandIndex
    IN  IF api \in SeatIdx /\ ahi + 1 \in 1 .. Len(W.seats[api].hands)
        THEN nextPlayerOrHand([W EXCEPT !.seats[api].hands[ahi + 1].status = "standing"])
        ELSE { W }

\* ------------------------------------------------------------ dealing
\* seats with bet > 0, in table order
RECURSIVE BetSeatsFrom(_, _)
BetSeatsFrom(W, i) ==
    IF i >= NumSeats THEN <<>>
    ELSE (IF W.seats[i].bet > 0 THEN <<i>> ELSE <<>>) \o BetSeatsFrom(W, i + 1)

seatsWithBets(W) == BetSeatsFrom(W, 0)

RECURSIVE DealEach(_, _)
DealEach(WS, idxs) ==
    IF idxs = <<>> THEN WS
    ELSE DealEach(Then(WS, LAMBDA w : DealToHand(w, Head(idxs), 1)), Tail(idxs))

startInsurancePhase(W) ==
    StartTimer([W EXCEPT !.phase = "insurance",
                         !.timerEndTime = <<TURN_TIME>>,
                         !.timer = TURN_TIME],
               TURN_TIME, "onInsuranceTimeout")

\* A faulty AfterDeal: with a ten-value card up the dealer does not look at the
\* hole card.
AfterDeal_NoPeek(W) ==
    LET W1 == [W EXCEPT !.seats = EachSeat(LAMBDA i :
                  [W.seats[i] EXCEPT
                     !.insuranceBet = 0,
                     !.hands = IF W.seats[i].bet > 0 /\ isBlackjack(@[1].cards)
                               THEN [@ EXCEPT ![1].status = "blackjack"] ELSE @])]
        dealerCard1 == W1.dealerHand[1]
    IN  IF dealerCard1.rank = "A"
        THEN startInsurancePhase(W1)
        ELSE StartTimer(W1, DEALING_DELAY, "startPlayerTurns")

\* dealInitialCards after the cards are out
AfterDeal(W) ==
    LET W1 == [W EXCEPT !.seats = EachSeat(LAMBDA i :
                  [W.seats[i] EXCEPT
                     !.insuranceBet = 0,
                     !.hands = IF W.seats[i].bet > 0 /\ isBlackjack(@[1].cards)
                               THEN [@ EXCEPT ![1].status = "blackjack"] ELSE @])]
        dealerCard1 == W1.dealerHand[1]
    IN  IF dealerCard1.rank = "A"
        THEN startInsurancePhase(W1)
        ELSE IF dealerCard1.rank \in TenValues /\ isBlackjack(W1.dealerHand)
        THEN StartTimer([W1 EXCEPT !.phase = "dealer_turn",
                                   !.dealerHand[2].faceUp = TRUE],
                        DEALING_DELAY, "calculatePayouts")
        ELSE StartTimer(W1, DEALING_DELAY, "startPlayerTurns")

\* A faulty dealInitialCards: the dealer's second card is dealt face-up.
dealInitialCards_HoleUp(W) ==
    LET W0 == [W EXCEPT !.phase = "dealing"]
        idxs == seatsWithBets(W0)
        first == DealEach({W0}, idxs)
        up == Then(first, LAMBDA w : DealToDealer(w, TRUE))
        second == DealEach(up, idxs)
        hole == Then(second, LAMBDA w : DealToDealer(w, TRUE))
    IN  { AfterDeal(w) : w \in hole }

dealInitialCards(W) ==
    LET W0 == [W EXCEPT !.phase = "dealing"]
        idxs == seatsWithBets(W0)
        first == DealEach({W0}, idxs)
        up == Then(first, LAMBDA w : DealToDealer(w, TRUE))
        second == DealEach(up, idxs)
        hole == Then(second, LAMBDA w : DealToDealer(w, FALSE))
    IN  { AfterDeal(w) : w \in hole }

HasBet(W, i) == W.seats[i].playerId # NULL /\ W.seats[i].bet > 0

\* A faulty onBettingEnd: the cards are dealt whether or not anybody has bet.
onBettingEnd_AlwaysDeals(W) ==
    IF FALSE
    THEN startBettingPhase(W)
    ELSE dealInitialCards(
           [W EXCEPT
              !.rounds = @ + 1,
              !.seats = EachSeat(LAMBDA i :
                  IF HasBet(W, i)
                  THEN [W.seats[i] EXCEPT
                          !.lastBet = W.seats[i].bet,
                          !.chips = @ - W.seats[i].bet,
                          !.hands = << [cards |-> <<>>, bet |-> W.seats[i].bet,
                                        status |-> "playing", isDoubled |-> FALSE,
                                        isSplit |-> FALSE] >>,
                          !.status = "playing"]
                  ELSE W.seats[i]),
              !.ledger = EachSeat(LAMBDA i :
                  IF W.seats[i].playerId # NULL
                  THEN [owner |-> W.seats[i].playerId,
                        start |-> W.seats[i].chips,
                        expected |-> W.seats[i].chips
                                     - (IF W.seats[i].bet > 0 THEN W.seats[i].bet ELSE 0),
                        decided |-> FALSE]
                  ELSE NoLedger)])

onBettingEnd(W) ==
    IF \A i \in SeatIdx : ~HasBet(W, i)
    THEN startBettingPhase(W)
    ELSE dealInitialCards(
           [W EXCEPT
              !.rounds = @ + 1,
              !.seats = EachSeat(LAMBDA i :
                  IF HasBet(W, i)
                  THEN [W.seats[i] EXCEPT
                          !.lastBet = W.seats[i].bet,
                          !.chips = @ - W.seats[i].bet,
                          !.hands = << [cards |-> <<>>, bet |-> W.seats[i].bet,
                                        status |-> "playing", isDoubled |-> FALSE,
                                        isSplit |-> FALSE] >>,
                          !.status = "playing"]
                  ELSE W.seats[i]),
              !.ledger = EachSeat(LAMBDA i :
                  IF W.seats[i].playerId # NULL
                  THEN [owner |-> W.seats[i].playerId,
                        start |-> W.seats[i].chips,
                        expected |-> W.seats[i].chips
                                     - (IF W.seats[i].bet > 0 THEN W.seats[i].bet ELSE 0),
                        decided |-> FALSE]
                  ELSE NoLedger)])

\* ------------------------------------------------------------ insurance
NeedsDecision(W, i) ==
    W.seats[i].playerId # NULL /\ W.seats[i].bet > 0 /\ W.seats[i].insuranceBet = 0

\* A faulty InsurancePayout: the winnings without the stake.
InsurancePayout_WinningsOnly(stake) == stake * 2

InsurancePayout(stake) == stake * 3

\* A faulty checkInsuranceComplete: it does not wait for the undecided seats.
checkInsuranceComplete_Early(W) ==
    IF FALSE THEN W
    ELSE LET W1 == ClearTimer(W)
         IN  IF isBlackjack(W1.dealerHand)
             THEN StartTimer(
                    [W1 EXCEPT
                       !.phase = "dealer_turn",
                       !.dealerHand[2].faceUp = TRUE,
                       !.seats = EachSeat(LAMBDA i :
                           IF W1.seats[i].insuranceBet > 0
                           THEN [W1.seats[i] EXCEPT
                                   !.chips = @ + InsurancePayout(W1.seats[i].insuranceBet)]
                           ELSE W1.seats[i]),
                       !.ledger = EachSeat(LAMBDA i :
                           IF W1.seats[i].insuranceBet > 0
                           THEN [W1.ledger[i] EXCEPT
                                   !.expected = @ + 3 * W1.seats[i].insuranceBet,
                                   !.decided = FALSE]
                           ELSE [W1.ledger[i] EXCEPT !.decided = FALSE])],
                    DEALING_DELAY, "calculatePayouts")
             ELSE StartTimer(
                    [W1 EXCEPT
                       !.seats = EachSeat(LAMBDA i :
                           IF W1.seats[i].insuranceBet = -1
                           THEN [W1.seats[i] EXCEPT !.insuranceBet = 0]
                           ELSE W1.seats[i])],
                    DEALING_DELAY, "startPlayerTurns")

checkInsuranceComplete(W) ==
    IF \E i \in SeatIdx : NeedsDecision(W, i) THEN W
    ELSE LET W1 == ClearTimer(W)
         IN  IF isBlackjack(W1.dealerHand)
             THEN StartTimer(
                    [W1 EXCEPT
                       !.phase = "dealer_turn",
                       !.dealerHand[2].faceUp = TRUE,
                       !.seats = EachSeat(LAMBDA i :
                           IF W1.seats[i].insuranceBet > 0
                           THEN [W1.seats[i] EXCEPT
                                   !.chips = @ + InsurancePayout(W1.seats[i].insuranceBet)]
                           ELSE W1.seats[i]),
                       !.ledger = EachSeat(LAMBDA i :
                           IF W1.seats[i].insuranceBet > 0
                           THEN [W1.ledger[i] EXCEPT
                                   !.expected = @ + 3 * W1.seats[i].insuranceBet,
                                   !.decided = FALSE]
                           ELSE [W1.ledger[i] EXCEPT !.decided = FALSE])],
                    DEALING_DELAY, "calculatePayouts")
             ELSE StartTimer(
                    [W1 EXCEPT
                       !.seats = EachSeat(LAMBDA i :
                           IF W1.seats[i].insuranceBet = -1
                           THEN [W1.seats[i] EXCEPT !.insuranceBet = 0]
                           ELSE W1.seats[i])],
                    DEALING_DELAY, "startPlayerTurns")

onInsuranceTimeout(W) ==
    checkInsuranceComplete(
        [W EXCEPT !.seats = EachSeat(LAMBDA i :
            IF NeedsDecision(W, i)
            THEN [W.seats[i] EXCEPT !.insuranceBet = -1] ELSE W.seats[i])])

InsuranceAccepts(W, c) ==
    /\ W.phase = "insurance"
    /\ SeatOf(W, c) # -1
    /\ W.seats[SeatOf(W, c)].bet > 0
    /\ W.seats[SeatOf(W, c)].insuranceBet = 0

InsuranceCost(bet) == bet \div 2

handleInsurance(W, accept, c) ==
    IF ~InsuranceAccepts(W, c) THEN { W }
    ELSE LET i == SeatOf(W, c)
             seat == W.seats[i]
             cost == InsuranceCost(seat.bet)
         IN  { checkInsuranceComplete(
                 IF accept /\ seat.chips >= cost
                 THEN [W EXCEPT !.seats[i].chips = @ - cost,
                                !.seats[i].insuranceBet = cost,
                                !.ledger[i].expected = @ - seat.bet \div 2,
                                !.ledger[i].decided = TRUE]
                 ELSE [W EXCEPT !.seats[i].insuranceBet = -1,
                                !.ledger[i].decided = TRUE]) }

\* ------------------------------------------------------------ seats
JoinAccepts(W, seatIndex, name, c) ==
    /\ name # BadName
    /\ seatIndex >= 0 /\ seatIndex < NumSeats
    /\ W.seats[seatIndex].playerId = NULL
    /\ SeatOf(W, c) = -1

handleJoinSeat(W, seatIndex, name, c) ==
    IF ~JoinAccepts(W, seatIndex, name, c) THEN { W }
    ELSE LET chips == IF name \in DOMAIN W.chipBalances
                      THEN W.chipBalances[name] ELSE INITIAL_CHIPS
         IN  checkGameState(
               [W EXCEPT
                  !.chipBalances = Put(@, name, chips),
                  !.seats[seatIndex] =
                      [playerId |-> c, displayName |-> name, chips |-> chips,
                       bet |-> 0, lastBet |-> 0, insuranceBet |-> 0,
                       hands |-> <<>>, status |-> "waiting"]])

\* save the balance under the display name and empty the seat
Vacate(W, i) ==
    [W EXCEPT !.chipBalances = Put(@, W.seats[i].displayName, W.seats[i].chips),
              !.seats[i] = createEmptySeat,
              !.ledger[i] = NoLedger]

LeaveAccepts(W, c) == SeatOf(W, c) # -1

handleLeaveSeat(W, c) ==
    IF ~LeaveAccepts(W, c) THEN { W }
    ELSE checkGameState(Vacate(W, SeatOf(W, c)))

handleSpectate(W, c) ==
    checkGameState(IF SeatOf(W, c) # -1 THEN Vacate(W, SeatOf(W, c)) ELSE W)

AtmAccepts(W, c) ==
    /\ SeatOf(W, c) # -1
    /\ ~(W.seats[SeatOf(W, c)].chips > 0 \/ W.seats[SeatOf(W, c)].bet > 0)

\* this.atmUsage[name] || 0
UsageOf(usage, name) == IF name \in DOMAIN usage THEN usage[name] ELSE 0

\* A faulty handleUseAtm: the refill is not counted.
handleUseAtm_NoCount(W, c) ==
    IF ~AtmAccepts(W, c) THEN W
    ELSE LET i == SeatOf(W, c)
             name == W.seats[i].displayName
         IN  [W EXCEPT !.seats[i].chips = INITIAL_CHIPS,
                       !.chipBalances = Put(@, name, INITIAL_CHIPS),
                       !.ledger[i] = NoLedger]

handleUseAtm(W, c) ==
    IF ~AtmAccepts(W, c) THEN W
    ELSE LET i == SeatOf(W, c)
             name == W.seats[i].displayName
         IN  [W EXCEPT !.seats[i].chips = INITIAL_CHIPS,
                       !.atmUsage = Put(@, name, UsageOf(W.atmUsage, name) + 1),
                       !.chipBalances = Put(@, name, INITIAL_CHIPS),
                       !.ledger[i] = NoLedger]

\* ------------------------------------------------------------ betting
\* A faulty PlaceBetAccepts: the phase goes unchecked.
PlaceBetAccepts_AnyPhase(W, amount, c) ==
    /\ SeatOf(W, c) # -1
    /\ ~(W.seats[SeatOf(W, c)].bet + amount > W.seats[SeatOf(W, c)].chips)

PlaceBetAccepts(W, amount, c) ==
    /\ W.phase = "betting"
    /\ SeatOf(W, c) # -1
    /\ ~(W.seats[SeatOf(W, c)].bet + amount > W.seats[SeatOf(W, c)].chips)

\* A faulty handlePlaceBet: a deadline that is already running is left running.
handlePlaceBet_KeepsDeadline(W, amount, c) ==
    IF ~PlaceBetAccepts(W, amount, c) THEN W
    ELSE LET i == SeatOf(W, c)
             W1 == [W EXCEPT !.seats[i].bet = @ + amount,
                             !.seats[i].status = "betting"]
         IN  IF W.alarm # NoTime THEN W1
             ELSE StartTimer(W1, BETTING_TIME, "onBettingEnd")

handlePlaceBet(W, amount, c) ==
    IF ~PlaceBetAccepts(W, amount, c) THEN W
    ELSE LET i == SeatOf(W, c)
         IN  StartTimer([W EXCEPT !.seats[i].bet = @ + amount,
                                  !.seats[i].status = "betting",
                                  !.timerEndTime = <<BETTING_TIME>>,
                                  !.timer = BETTING_TIME],
                        BETTING_TIME, "onBettingEnd")

ClearBetAccepts(W, c) == W.phase = "betting" /\ SeatOf(W, c) # -1

handleClearBet(W, c) ==
    IF ~ClearBetAccepts(W, c) THEN W
    ELSE LET i == SeatOf(W, c)
             previousBet == W.seats[i].bet
             W1 == [W EXCEPT !.seats[i].bet = 0,
                             !.seats[i].lastBet = 0,
                             !.seats[i].status = "waiting"]
         IN  IF previousBet > 0 /\ \E j \in SeatIdx : W1.seats[j].bet > 0
             THEN StartTimer([W1 EXCEPT !.timerEndTime = <<BETTING_TIME>>,
                                        !.timer = BETTING_TIME],
                             BETTING_TIME, "onBettingEnd")
             ELSE W1

\* ------------------------------------------------------------ player actions
\* the guard hit, stand and surrender share: the sender owns the active seat and
\* the active hand exists and is playing
ActiveHandOf(W, c) ==
    /\ W.phase = "player_turn"
    /\ SeatOf(W, c) # -1
    /\ SeatOf(W, c) = W.activePlayerIndex
    /\ W.activeHandIndex + 1 \in 1 .. Len(W.seats[SeatOf(W, c)].hands)

\* A faulty HitAccepts: whose turn it is goes unchecked.
HitAccepts_AnySeat(W, c) ==
    /\ W.phase = "player_turn"
    /\ SeatOf(W, c) # -1
    /\ W.activeHandIndex + 1 \in 1 .. Len(W.seats[SeatOf(W, c)].hands)
    /\ W.seats[SeatOf(W, c)].hands[W.activeHandIndex + 1].status = "playing"

HitAccepts(W, c) ==
    /\ ActiveHandOf(W, c)
    /\ W.seats[SeatOf(W, c)].hands[W.activeHandIndex + 1].status = "playing"

\* A faulty handleHit: a hand that reaches 21 stays open.
handleHit_PlaysOn21(W, c) ==
    IF ~HitAccepts(W, c) THEN { W }
    ELSE LET i == SeatOf(W, c)
             h == W.activeHandIndex + 1
         IN  Then(DealToHand(W, i, h),
                  LAMBDA w :
                    LET value == calculateHandValue(w.seats[i].hands[h].cards)
                    IN  IF value > 21
                        THEN nextPlayerOrHand([w EXCEPT !.seats[i].hands[h].status = "busted"])
                        ELSE { StartTimer([w EXCEPT !.timerEndTime = <<TURN_TIME>>,
                                                    !.timer = TURN_TIME],
                                          TURN_TIME, "onTurnTimeout") })

handleHit(W, c) ==
    IF ~HitAccepts(W, c) THEN { W }
    ELSE LET i == SeatOf(W, c)
             h == W.activeHandIndex + 1
         IN  Then(DealToHand(W, i, h),
                  LAMBDA w :
                    LET value == calculateHandValue(w.seats[i].hands[h].cards)
                    IN  IF value > 21
                        THEN nextPlayerOrHand([w EXCEPT !.seats[i].hands[h].status = "busted"])
                        ELSE IF value = 21
                        THEN nextPlayerOrHand([w EXCEPT !.seats[i].hands[h].status = "standing"])
                        ELSE { StartTimer([w EXCEPT !.timerEndTime = <<TURN_TIME>>,
                                                    !.timer = TURN_TIME],
                                          TURN_TIME, "onTurnTimeout") })

StandAccepts(W, c) ==
    /\ ActiveHandOf(W, c)
    /\ W.seats[SeatOf(W, c)].hands[W.activeHandIndex + 1].status = "playing"

\* A faulty handleStand: the hand stands and the turn stays on it.
handleStand_KeepsTurn(W, c) ==
    IF ~StandAccepts(W, c) THEN { W }
    ELSE { StartTimer(
             [W EXCEPT !.seats[SeatOf(W, c)].hands[W.activeHandIndex + 1].status = "standing"],
             TURN_TIME, "onTurnTimeout") }

handleStand(W, c) ==
    IF ~StandAccepts(W, c) THEN { W }
    ELSE nextPlayerOrHand(
           [W EXCEPT !.seats[SeatOf(W, c)].hands[W.activeHandIndex + 1].status = "standing"])

SurrenderAccepts(W, c) ==
    /\ ActiveHandOf(W, c)
    /\ W.seats[SeatOf(W, c)].hands[W.activeHandIndex + 1].status = "playing"
    /\ Len(W.seats[SeatOf(W, c)].hands[W.activeHandIndex + 1].cards) = 2
    /\ ~W.seats[SeatOf(W, c)].hands[W.activeHandIndex + 1].isSplit

\* A faulty SurrenderRefund: the whole bet comes back.
SurrenderRefund_Full(bet) == bet

SurrenderRefund(bet) == bet \div 2

handleSurrender(W, c) ==
    IF ~SurrenderAccepts(W, c) THEN { W }
    ELSE LET i == SeatOf(W, c)
             h == W.activeHandIndex + 1
             hand == W.seats[i].hands[h]
         IN  nextPlayerOrHand(
               [W EXCEPT !.seats[i].chips = @ + SurrenderRefund(hand.bet),
                         !.seats[i].hands[h].status = "surrendered",
                         !.ledger[i].expected = @ + hand.bet \div 2])

\* A faulty DoubleAccepts: the chips go unchecked.
DoubleAccepts_NoChipsCheck(W, c) ==
    /\ ActiveHandOf(W, c)
    /\ canDouble(W.seats[SeatOf(W, c)].hands[W.activeHandIndex + 1])

DoubleAccepts(W, c) ==
    /\ ActiveHandOf(W, c)
    /\ canDouble(W.seats[SeatOf(W, c)].hands[W.activeHandIndex + 1])
    /\ ~(W.seats[SeatOf(W, c)].chips < W.seats[SeatOf(W, c)].hands[W.activeHandIndex + 1].bet)

\* A faulty handleDouble: a doubled hand that is not over 21 stays open.
handleDouble_StaysOpen(W, c) ==
    IF ~DoubleAccepts(W, c) THEN { W }
    ELSE LET i == SeatOf(W, c)
             h == W.activeHandIndex + 1
             hand == W.seats[i].hands[h]
             W1 == [W EXCEPT !.seats[i].chips = @ - hand.bet,
                             !.seats[i].hands[h].bet = @ * 2,
                             !.seats[i].hands[h].isDoubled = TRUE,
                             !.ledger[i].expected = @ - hand.bet]
         IN  Then(DealToHand(W1, i, h),
                  LAMBDA w :
                    IF calculateHandValue(w.seats[i].hands[h].cards) > 21
                    THEN nextPlayerOrHand([w EXCEPT !.seats[i].hands[h].status = "busted"])
                    ELSE { StartTimer(w, TURN_TIME, "onTurnTimeout") })

handleDouble(W, c) ==
    IF ~DoubleAccepts(W, c) THEN { W }
    ELSE LET i == SeatOf(W, c)
             h == W.activeHandIndex + 1
             hand == W.seats[i].hands[h]
             W1 == [W EXCEPT !.seats[i].chips = @ - hand.bet,
                             !.seats[i].hands[h].bet = @ * 2,
                             !.seats[i].hands[h].isDoubled = TRUE,
                             !.ledger[i].expected = @ - hand.bet]
         IN  Then(DealToHand(W1, i, h),
                  LAMBDA w :
                    nextPlayerOrHand(
                      [w EXCEPT !.seats[i].hands[h].status =
                          IF calculateHandValue(w.seats[i].hands[h].cards) > 21
                          THEN "busted" ELSE "standing"]))

\* A faulty SplitAccepts: the chips go unchecked.
SplitAccepts_NoChipsCheck(W, c) ==
    /\ ActiveHandOf(W, c)
    /\ canSplit(W.seats[SeatOf(W, c)].hands[W.activeHandIndex + 1])
    /\ ~(Len(W.seats[SeatOf(W, c)].hands) >= MaxHands)

SplitAccepts(W, c) ==
    /\ ActiveHandOf(W, c)
    /\ canSplit(W.seats[SeatOf(W, c)].hands[W.activeHandIndex + 1])
    /\ ~(Len(W.seats[SeatOf(W, c)].hands) >= MaxHands)
    /\ ~(W.seats[SeatOf(W, c)].chips < W.seats[SeatOf(W, c)].hands[W.activeHandIndex + 1].bet)

InsertAt(seq, k, x) == SubSeq(seq, 1, k) \o <<x>> \o SubSeq(seq, k + 1, Len(seq))

\* A faulty handleSplit: the turn goes to the new hand first.
handleSplit_NewHandFirst(W, c) ==
    IF ~SplitAccepts(W, c) THEN { W }
    ELSE LET i == SeatOf(W, c)
             h == W.activeHandIndex + 1
             hand == W.seats[i].hands[h]
             newHand == [cards |-> << hand.cards[2] >>, bet |-> hand.bet,
                         status |-> "playing", isDoubled |-> FALSE, isSplit |-> TRUE]
             W1 == [W EXCEPT !.seats[i].chips = @ - hand.bet,
                             !.seats[i].hands[h].cards = << hand.cards[1] >>,
                             !.seats[i].hands[h].isSplit = TRUE,
                             !.ledger[i].expected = @ - hand.bet]
         IN  { StartTimer(
                 [d2.w EXCEPT
                    !.seats[i].hands =
                        InsertAt(@, h, [newHand EXCEPT !.cards = Append(@, d2.card)]),
                    !.activeHandIndex = h,
                    !.timerEndTime = <<TURN_TIME>>,
                    !.timer = TURN_TIME],
                 TURN_TIME, "onTurnTimeout")
               : d2 \in UNION { drawCard(w1) : w1 \in DealToHand(W1, i, h) } }

handleSplit(W, c) ==
    IF ~SplitAccepts(W, c) THEN { W }
    ELSE LET i == SeatOf(W, c)
             h == W.activeHandIndex + 1
             hand == W.seats[i].hands[h]
             newHand == [cards |-> << hand.cards[2] >>, bet |-> hand.bet,
                         status |-> "playing", isDoubled |-> FALSE, isSplit |-> TRUE]
             W1 == [W EXCEPT !.seats[i].chips = @ - hand.bet,
                             !.seats[i].hands[h].cards = << hand.cards[1] >>,
                             !.seats[i].hands[h].isSplit = TRUE,
                             !.ledger[i].expected = @ - hand.bet]
         IN  { StartTimer(
                 [d2.w EXCEPT
                    !.seats[i].hands =
                        InsertAt(@, h, [newHand EXCEPT !.cards = Append(@, d2.card)]),
                    !.timerEndTime = <<TURN_TIME>>,
                    !.timer = TURN_TIME],
                 TURN_TIME, "onTurnTimeout")
               : d2 \in UNION { drawCard(w1) : w1 \in DealToHand(W1, i, h) } }

\* ------------------------------------------------------------ onClose
\* A faulty onClose: the seat is given up as leave_seat gives it up, the turn stays.
onClose_AsLeave(W, c) ==
    IF SeatOf(W, c) = -1 THEN checkGameState(W)
    ELSE checkGameState(Vacate(W, SeatOf(W, c)))

onClose(W, c) ==
    LET i == SeatOf(W, c)
        wasActivePlayer == i # -1 /\ W.phase = "player_turn" /\ W.activePlayerIndex = i
    IN  IF i = -1 THEN checkGameState(W)
        ELSE IF ~wasActivePlayer THEN checkGameState(Vacate(W, i))
        ELSE LET W1 == Vacate(W, i)
                 nxt == findNextActivePlayer(W1, i)
                 W2 == [W1 EXCEPT !.activePlayerIndex = nxt, !.activeHandIndex = 0]
             IN  IF nxt = -1
                 THEN \* startDealerTurn() is started and suspends in clearTimer;
                      \* checkGameState() then runs up to its own await; the rest of
                      \* startDealerTurn runs after both.
                      LET W3 == ClearTimer(W2)
                          W4 == IF Occupied(W3) = {}
                                THEN ClearTimer([W3 EXCEPT !.phase = "waiting"])
                                ELSE W3
                      IN  DealerTurnBody(W4)
                 ELSE checkGameState(
                        StartTimer([W2 EXCEPT
                                      !.activeHandIndex = FirstPlaying(W2.seats[nxt], 0, 0),
                                      !.timerEndTime = <<TURN_TIME>>,
                                      !.timer = TURN_TIME],
                                   TURN_TIME, "onTurnTimeout"))

\* broadcastState / onConnect: the state_update message carries this.state as it is
\* (lastUpdate, the spectators and the chat left out)
Snapshot(W) ==
    [phase |-> W.phase, shoe |-> W.shoe, cutCardIndex |-> W.cutCardIndex,
     needsReshuffle |-> W.needsReshuffle, dealerHand |-> W.dealerHand,
     seats |-> W.seats, activePlayerIndex |-> W.activePlayerIndex,
     activeHandIndex |-> W.activeHandIndex, timer |-> W.timer,
     timerEndTime |-> W.timerEndTime, chipBalances |-> W.chipBalances,
     runningCount |-> W.runningCount]

\* ------------------------------------------------------------ onAlarm
RunCallback(W, callback) ==
    IF callback = "onBettingEnd" THEN onBettingEnd(W)
    ELSE IF callback = "onInsuranceTimeout" THEN { onInsuranceTimeout(W) }
    ELSE IF callback = "startPlayerTurns" THEN startPlayerTurns(W)
    ELSE IF callback = "onTurnTimeout" THEN onTurnTimeout(W)
    ELSE IF callback = "playDealerHand" THEN playDealerHand(W)
    ELSE IF callback = "calculatePayouts" THEN { calculatePayouts(W) }
    ELSE afterPayout(W)

onAlarm(W) ==
    LET W1 == [W EXCEPT !.alarm = NoTime]
    IN  IF W1.timerCallback # NULL
        THEN RunCallback([W1 EXCEPT !.timerCallback = NULL], W1.timerCallback)
        ELSE { W1 }

\* ------------------------------------------------------------ events
\* the outcomes WS, one more seat having changed hands
Moved(WS) == { [w EXCEPT !.moves = @ + 1] : w \in WS }

\* An event the handler accepted becomes one of its outcomes; a rejected one leaves
\* everything as it is.  entry is the entry point (onMessage, onClose or onAlarm),
\* remembered in lastEvent when the event changed anything.
Outcome(entry, accepted, outcomes) ==
    IF accepted
    THEN \E T \in outcomes :
           IF T = World THEN UNCHANGED vars
           ELSE Become([T EXCEPT !.lastEvent = entry])
    ELSE UNCHANGED vars

\* The table is watched until the betting after the last round, where only the
\* messages that take chips off the table or refill a seat (clear_bet, place_bet
\* with a negative amount, use_atm) are still followed.
Handled(entry, accepted, outcomes) ==
    /\ rounds < MaxRounds \/ phase \notin {"betting", "waiting"}
    /\ Outcome(entry, accepted, outcomes)

JoinSeatMsg(c, seatIndex, name) ==
    /\ JoinAccepts(World, seatIndex, name, c) => moves < MaxMoves
    /\ Handled("onMessage", JoinAccepts(World, seatIndex, name, c),
               Moved(handleJoinSeat(World, seatIndex, name, c)))

JoinSeat(c) ==
    \E seatIndex \in JoinIdxOf(c), name \in NamesOf(c) \cup {BadName} :
        JoinSeatMsg(c, seatIndex, name)

LeaveSeat(c) ==
    /\ LeaveAccepts(World, c) => moves < MaxMoves
    /\ Handled("onMessage", LeaveAccepts(World, c), Moved(handleLeaveSeat(World, c)))

Spectate(c) ==
    /\ SeatOf(World, c) # -1 => moves < MaxMoves
    /\ Handled("onMessage", TRUE,
               IF SeatOf(World, c) # -1 THEN Moved(handleSpectate(World, c))
               ELSE handleSpectate(World, c))

UseAtm(c) ==
    Outcome("onMessage", AtmAccepts(World, c), { handleUseAtm(World, c) })

PlaceBetMsg(c, amount) ==
    /\ SeatOf(World, c) # -1 => seats[SeatOf(World, c)].bet + amount >= 0 - MaxNegBet
    /\ IF amount < 0
       THEN Outcome("onMessage", PlaceBetAccepts(World, amount, c),
                    { handlePlaceBet(World, amount, c) })
       ELSE Handled("onMessage", PlaceBetAccepts(World, amount, c),
                    { handlePlaceBet(World, amount, c) })

PlaceBet(c) == \E amount \in BetAmounts : PlaceBetMsg(c, amount)

ClearBet(c) ==
    Outcome("onMessage", ClearBetAccepts(World, c), { handleClearBet(World, c) })

Hit(c) == Handled("onMessage", HitAccepts(World, c), handleHit(World, c))

Stand(c) == Handled("onMessage", StandAccepts(World, c), handleStand(World, c))

Double(c) == Handled("onMessage", DoubleAccepts(World, c), handleDouble(World, c))

Split(c) == Handled("onMessage", SplitAccepts(World, c), handleSplit(World, c))

Surrender(c) ==
    Handled("onMessage", SurrenderAccepts(World, c), handleSurrender(World, c))

InsuranceMsg(c, accept) ==
    Handled("onMessage", InsuranceAccepts(World, c), handleInsurance(World, accept, c))

Insurance(c) == \E accept \in BOOLEAN : InsuranceMsg(c, accept)

Close(c) ==
    /\ SeatOf(World, c) # -1 => moves < MaxMoves
    /\ Handled("onClose", TRUE,
               IF SeatOf(World, c) # -1 THEN Moved(onClose(World, c)) ELSE onClose(World, c))

\* Time passes during betting: less than the full duration is left on the pending
\* alarm, down to none.  No handler runs.
Tick ==
    /\ Len(alarm) = 1 /\ phase = "betting"
    /\ rounds < MaxRounds \/ phase \notin {"betting", "waiting"}
    /\ alarm' = << alarm[1], 0 >>
    /\ UNCHANGED << phase, shoe, cutCardIndex, needsReshuffle, dealerHand, seats,
                    activePlayerIndex, activeHandIndex, timer, timerEndTime,
                    chipBalances, runningCount, timerCallback, atmUsage,
                    storedBalances, payoutRuns, rounds, ledger, lastEvent, moves >>

\* The alarm fires: the betting deadline once time has passed on it, any other
\* deadline at any moment.
Alarm ==
    /\ Len(alarm) = 2 \/ (alarm # NoTime /\ phase # "betting")
    /\ timerCallback = "onBettingEnd" /\ (\E i \in SeatIdx : HasBet(World, i))
           => rounds < MaxRounds
    /\ Handled("onAlarm", TRUE, onAlarm(World))

\* The process restarts: the constructor and onStart run again; the durable storage
\* (balances, alarm) is what is left of the old instance.
Restart ==
    \E newShoe \in createShoe(InitialDecks) :
    Become([InitialWorld(newShoe) EXCEPT !.chipBalances = storedBalances,
                                !.atmUsage = atmUsage,
                                !.rounds = rounds,
                                !.moves = moves,
                                !.storedBalances = storedBalances,
                                !.alarm = alarm,
                                !.lastEvent = "onStart"])

Init ==
    \E newShoe \in createShoe(InitialDecks) :
        /\ phase = InitialWorld(newShoe).phase
        /\ shoe = InitialWorld(newShoe).shoe
        /\ cutCardIndex = InitialWorld(newShoe).cutCardIndex
        /\ needsReshuffle = InitialWorld(newShoe).needsReshuffle
        /\ dealerHand = InitialWorld(newShoe).dealerHand
        /\ seats = InitialWorld(newShoe).seats
        /\ activePlayerIndex = InitialWorld(newShoe).activePlayerIndex
        /\ activeHandIndex = InitialWorld(newShoe).activeHandIndex
        /\ timer = InitialWorld(newShoe).timer
        /\ timerEndTime = InitialWorld(newShoe).timerEndTime
        /\ chipBalances = InitialWorld(newShoe).chipBalances
        /\ runningCount = InitialWorld(newShoe).runningCount
        /\ timerCallback = InitialWorld(newShoe).timerCallback
        /\ atmUsage = InitialWorld(newShoe).atmUsage
        /\ alarm = InitialWorld(newShoe).alarm
        /\ storedBalances = InitialWorld(newShoe).storedBalances
        /\ payoutRuns = InitialWorld(newShoe).payoutRuns
        /\ rounds = InitialWorld(newShoe).rounds
        /\ ledger = InitialWorld(newShoe).ledger
        /\ lastEvent = InitialWorld(newShoe).lastEvent
        /\ moves = InitialWorld(newShoe).moves

Next ==
    \/ \E c \in Conns : JoinSeat(c)
    \/ \E c \in Conns : LeaveSeat(c)
    \/ \E c \in Conns : Spectate(c)
    \/ \E c \in Conns : UseAtm(c)
    \/ \E c \in Conns : PlaceBet(c)
    \/ \E c \in Conns : ClearBet(c)
    \/ \E c \in Conns : Hit(c)
    \/ \E c \in Conns : Stand(c)
    \/ \E c \in Conns : Double(c)
    \/ \E c \in Conns : Split(c)
    \/ \E c \in Conns : Surrender(c)
    \/ \E c \in Conns : Insurance(c)
    \/ \E c \in Conns : Close(c)
    \/ Tick
    \/ Alarm

Spec == Init /\ [][Next]_vars

\* Time passes and the platform delivers a pending alarm.
SpecFair == Init /\ [][Next]_vars /\ WF_vars(Tick) /\ WF_vars(Alarm)

\* The table process may restart at any moment.
SpecRestart == Init /\ [][Next \/ Restart]_vars

\* ------------------------------------------------------------ properties
\* the active hand, when the active indices designate one
HasActiveHand ==
    /\ activePlayerIndex \in SeatIdx
    /\ activeHandIndex + 1 \in 1 .. Len(seats[activePlayerIndex].hands)

ActiveHand == seats[activePlayerIndex].hands[activeHandIndex + 1]

\* c owns the active seat and its active hand exists
OwnsActiveHand(c) ==
    /\ SeatOf(World, c) # -1
    /\ SeatOf(World, c) = activePlayerIndex
    /\ HasActiveHand

\* the seat is held by the connection that held it when betting closed
SameOwner(i) == ledger[i].owner # NULL /\ seats[i].playerId = ledger[i].owner

\* every hand of the seat is a push
AllPush(i) ==
    /\ seats[i].hands # <<>>
    /\ seats[i].insuranceBet <= 0
    /\ \A h \in 1 .. Len(seats[i].hands) :
          /\ seats[i].hands[h].status \notin {"busted", "surrendered"}
          /\ HandPayout(seats[i].hands[h], dealerHand) = seats[i].hands[h].bet

\* C1: from every state in phase player_turn the round reaches phase payout,
\* provided a seat stays occupied and the pending alarm is delivered, whatever the
\* connections send (leave_seat and spectate of the active seat's owner included).
C1_PlayerTurnReachesPayout ==
    (phase = "player_turn") ~> (phase = "payout" \/ Occupied(World) = {})

\* C1, the case: the turn is nobody's, no deadline is pending, a seat is occupied.
C1_TurnAbandoned ==
    /\ phase = "player_turn"
    /\ alarm = NoTime /\ timerCallback = NULL
    /\ Occupied(World) # {}
    /\ activePlayerIndex \in SeatIdx
    /\ seats[activePlayerIndex].playerId = NULL

\* C2: between two entries into the betting phase calculatePayouts runs at most
\* once, so no hand is settled twice in a round.
C2_PayoutOncePerRound == payoutRuns <= 1

\* C2, the case: a round has been settled and a hand has been paid.
C2_RoundSettled ==
    /\ phase = "payout" /\ payoutRuns = 1
    /\ \E i \in Occupied(World) : SeatPayout(seats[i].hands, dealerHand) > 0

\* C3: a seat held by the same connection since betting closed, with no ATM use,
\* has before settlement its chips at the close of betting minus its stakes (bet,
\* double, split, insurance) plus its credits (surrender refund, insurance payout),
\* and after settlement that plus the payout of each of its hands, once; a seat
\* whose hands all push is back at the chips it had when betting closed.
C3_ChipConservation ==
    \A i \in SeatIdx :
        SameOwner(i) =>
            /\ phase \in {"dealing", "insurance", "player_turn", "dealer_turn"}
                  => seats[i].chips = ledger[i].expected
            /\ phase = "payout"
                  => /\ seats[i].chips
                          = ledger[i].expected + SeatPayout(seats[i].hands, dealerHand)
                     /\ AllPush(i) => seats[i].chips = ledger[i].start

\* C3, the case: a settled seat that staked more than its bet and was paid.
C3_SettledWithStakes ==
    /\ phase = "payout"
    /\ \E i \in SeatIdx :
          /\ SameOwner(i)
          /\ ledger[i].expected < ledger[i].start - seats[i].bet
          /\ SeatPayout(seats[i].hands, dealerHand) > 0

\* C5: an alarm that fires always finds the transition that was pending when it
\* was set, also when the process restarted in between.
C5_AlarmRunsPendingTransition == [][Alarm => timerCallback # NULL]_vars

\* C5, the case: the process has restarted with a deadline pending.
C5_RestartedWithDeadline ==
    /\ lastEvent = "onStart"
    /\ alarm # NoTime /\ timerCallback = NULL

\* C6: the close of the active seat's connection during player_turn empties the
\* seat and, in the same event, makes the next higher seat with a playing hand the
\* active one with a fresh turn deadline, or starts the dealer turn if there is none.
C6_CloseAdvancesTurn ==
    [][\A c \in Conns :
          (phase = "player_turn" /\ SeatOf(World, c) # -1
              /\ SeatOf(World, c) = activePlayerIndex /\ Close(c))
          => LET i == activePlayerIndex
                 nxt == findNextActivePlayer(World, i)
             IN  /\ seats'[i] = createEmptySeat
                 /\ IF nxt # -1
                    THEN /\ phase' = "player_turn"
                         /\ activePlayerIndex' = nxt
                         /\ activeHandIndex' + 1 \in 1 .. Len(seats'[nxt].hands)
                         /\ seats'[nxt].hands[activeHandIndex' + 1].status = "playing"
                         /\ timerCallback' = "onTurnTimeout"
                         /\ alarm' = << TURN_TIME >>
                    ELSE /\ activePlayerIndex' = -1
                         /\ phase' \in {"dealer_turn", "payout"}]_vars

\* C6, the case: the active seat's connection can close and the turn passes to a
\* higher seat.
C6_ActiveSeatCloses ==
    \E c \in Conns :
        /\ phase = "player_turn"
        /\ SeatOf(World, c) # -1 /\ SeatOf(World, c) = activePlayerIndex
        /\ findNextActivePlayer(World, activePlayerIndex) # -1
        /\ ENABLED (Close(c) /\ phase' = "player_turn"
                      /\ activePlayerIndex' = findNextActivePlayer(World, activePlayerIndex))

\* C7: when the turn deadline expires on a playing active hand, the hand becomes
\* standing with the cards it had, no player's hand gets a card, no chips change,
\* and the turn goes to the seat's next playing hand, else to the next seat with a
\* playing hand, else to the dealer (whose own play begins in the same event).
C7_TimeoutStands ==
    [][(phase = "player_turn" /\ timerCallback = "onTurnTimeout" /\ HasActiveHand
           /\ ActiveHand.status = "playing" /\ Alarm)
       => LET i == activePlayerIndex
              h == activeHandIndex + 1
              nextHand == FirstPlaying(seats[i], activeHandIndex + 1, -1)
              nxt == findNextActivePlayer(World, i)
          IN  /\ seats'[i].hands[h].status = "standing"
              /\ \A j \in SeatIdx :
                    /\ seats'[j].chips = seats[j].chips
                    /\ Len(seats'[j].hands) = Len(seats[j].hands)
                    /\ \A k \in 1 .. Len(seats[j].hands) :
                          seats'[j].hands[k].cards = seats[j].hands[k].cards
              /\ IF nextHand # -1
                 THEN /\ phase' = "player_turn"
                      /\ activePlayerIndex' = i /\ activeHandIndex' = nextHand
                 ELSE IF nxt # -1
                 THEN /\ phase' = "player_turn"
                      /\ activePlayerIndex' = nxt
                      /\ seats'[nxt].hands[activeHandIndex' + 1].status = "playing"
                 ELSE /\ phase' = "dealer_turn"
                      /\ activePlayerIndex' = -1]_vars

\* C7, the case: a turn deadline has expired, a hand stands, the turn has moved on
\* to another hand.
C7_TimedOutHandStands ==
    /\ lastEvent = "onAlarm"
    /\ phase = "player_turn"
    /\ HasActiveHand /\ ActiveHand.status = "playing"
    /\ \E i \in SeatIdx : \E h \in 1 .. Len(seats[i].hands) :
          seats[i].hands[h].status = "standing"

\* the sender of a player action is out of turn
OutOfTurn(c) ==
    \/ phase # "player_turn"
    \/ ~OwnsActiveHand(c)
    \/ ActiveHand.status # "playing"

PlayerAction(c) == Hit(c) \/ Stand(c) \/ Double(c) \/ Split(c) \/ Surrender(c)

\* C8: hit, stand, double, split and surrender leave the table as it is when the
\* phase is not player_turn, or the sender does not own the active seat, or the
\* active hand is not playing: a step that changes the table is none of these.
C8_OutOfTurnActionIgnored ==
    [][UNCHANGED tableVars \/ \A c \in Conns : ~(OutOfTurn(c) /\ PlayerAction(c))]_vars

\* C8, the case: during player_turn a seated connection with a playing hand of its
\* own, whose turn it is not, sends each of the five actions and nothing changes.
C8_WaitingSeatActs ==
    \E c \in Conns :
        /\ phase = "player_turn"
        /\ SeatOf(World, c) # -1 /\ SeatOf(World, c) # activePlayerIndex
        /\ HasPlaying(seats[SeatOf(World, c)])
        /\ ENABLED (Hit(c) /\ UNCHANGED tableVars)
        /\ ENABLED (Stand(c) /\ UNCHANGED tableVars)
        /\ ENABLED (Double(c) /\ UNCHANGED tableVars)
        /\ ENABLED (Split(c) /\ UNCHANGED tableVars)
        /\ ENABLED (Surrender(c) /\ UNCHANGED tableVars)

\* the active hand is c's and the seat cannot pay another bet of it
CannotAfford(c) ==
    /\ phase = "player_turn" /\ OwnsActiveHand(c)
    /\ seats[activePlayerIndex].chips < ActiveHand.bet

\* the active hand is c's and is split or has more than two cards
PastSurrender(c) ==
    /\ phase = "player_turn" /\ OwnsActiveHand(c)
    /\ (ActiveHand.isSplit \/ Len(ActiveHand.cards) > 2)

\* C9: a message that violates a precondition leaves the table as it is: place_bet
\* or clear_bet outside betting, place_bet above the chips, place_bet unseated,
\* join_seat on a seat out of range or taken or by a seated connection, double or
\* split with chips below the hand's bet, surrender on a split hand or on more
\* than two cards, insurance outside the insurance phase: a step that changes the
\* table is none of these.
C9_ViolationIgnored ==
    [][\/ UNCHANGED tableVars
       \/ \A c \in Conns :
             /\ ~(phase # "betting" /\ (PlaceBet(c) \/ ClearBet(c)))
             /\ \A amount \in BetAmounts :
                   ~(/\ SeatOf(World, c) # -1
                     /\ seats[SeatOf(World, c)].bet + amount > seats[SeatOf(World, c)].chips
                     /\ PlaceBetMsg(c, amount))
             /\ ~(SeatOf(World, c) = -1 /\ PlaceBet(c))
             /\ \A seatIndex \in JoinIdx, name \in Names :
                   ~(/\ \/ seatIndex \notin SeatIdx
                        \/ SeatOf(World, c) # -1
                        \/ seats[seatIndex].playerId # NULL
                     /\ JoinSeatMsg(c, seatIndex, name))
             /\ ~(CannotAfford(c) /\ (Double(c) \/ Split(c)))
             /\ ~(PastSurrender(c) /\ Surrender(c))
             /\ ~(phase # "insurance" /\ Insurance(c))]_vars

\* C9, the case: the owner of an active three-card hand, short of chips for
\* another bet, sends double, surrender, place_bet, clear_bet, insurance and
\* join_seat, and nothing changes.
C9_ViolationsSent ==
    \E c \in Conns :
        /\ CannotAfford(c) /\ PastSurrender(c)
        /\ ENABLED (Double(c) /\ UNCHANGED tableVars)
        /\ ENABLED (Surrender(c) /\ UNCHANGED tableVars)
        /\ ENABLED (PlaceBet(c) /\ UNCHANGED tableVars)
        /\ ENABLED (ClearBet(c) /\ UNCHANGED tableVars)
        /\ ENABLED (Insurance(c) /\ UNCHANGED tableVars)
        /\ ENABLED (JoinSeat(c) /\ UNCHANGED tableVars)

\* C10: in every reachable state every seat has chips >= 0.
C10_ChipsNeverNegative == \A i \in SeatIdx : seats[i].chips >= 0

\* C10, the case: a seat that staked all its chips in a round and has none left.
C10_AllChipsStaked ==
    \E i \in Occupied(World) :
        /\ seats[i].chips = 0
        /\ seats[i].hands # <<>>
        /\ \E h \in 1 .. Len(seats[i].hands) : seats[i].hands[h].isDoubled

\* C11: in every reachable state of the betting phase every seat has
\* 0 <= bet <= chips, whatever integer amounts place_bet carried (zero and
\* negative ones included).
C11_BetWithinChips ==
    phase = "betting" => \A i \in SeatIdx : 0 <= seats[i].bet /\ seats[i].bet <= seats[i].chips

\* C11, the case: a place_bet with a negative amount was accepted during betting.
C11_NegativeBet ==
    /\ phase = "betting" /\ lastEvent = "onMessage"
    /\ \E i \in Occupied(World) : seats[i].bet < 0

\* C12: every place_bet accepted in the betting phase cancels the pending betting
\* deadline and arms a new one with the full betting duration left, and betting
\* closes only on a deadline on which time has passed since it was armed.
C12_BetRestartsCountdown ==
    [][/\ \A c \in Conns, amount \in BetAmounts :
            (PlaceBetAccepts(World, amount, c) /\ PlaceBetMsg(c, amount))
            => /\ phase' = "betting"
               /\ alarm' = << BETTING_TIME >>
               /\ timerCallback' = "onBettingEnd"
       /\ (phase = "betting" /\ phase' = "dealing")
            => alarm = << BETTING_TIME, 0 >> /\ timerCallback = "onBettingEnd"]_vars

\* C12, the case: time has passed on the betting deadline and a place_bet that
\* raises a bet is accepted.
C12_BetOnRunningCountdown ==
    /\ phase = "betting"
    /\ alarm = << BETTING_TIME, 0 >>
    /\ \E c \in Conns :
          /\ PlaceBetAccepts(World, 1, c)
          /\ ENABLED (PlaceBetMsg(c, 1) /\ alarm' = << BETTING_TIME >>)

\* some occupied seat has bet > 0
SomeBet == \E i \in SeatIdx : HasBet(World, i)

\* the phases of a round in play
InPlay == {"dealing", "insurance", "player_turn", "dealer_turn", "payout"}

\* C13: the table leaves betting for a round only when the betting deadline expires
\* while some occupied seat has bet > 0, and then it does; when the deadline
\* expires with no such seat the table is in betting again, no chips deducted and
\* no card dealt.
C13_BettingCloses ==
    [][/\ (phase = "betting" /\ phase' \in InPlay)
            => /\ timerCallback = "onBettingEnd" /\ alarm = << BETTING_TIME, 0 >>
               /\ lastEvent' = "onAlarm"
               /\ SomeBet
       /\ (phase = "betting" /\ timerCallback = "onBettingEnd" /\ SomeBet /\ Alarm)
            => phase' \in InPlay
       /\ (phase = "betting" /\ timerCallback = "onBettingEnd" /\ ~SomeBet /\ Alarm)
            => /\ phase' = "betting"
               /\ dealerHand' = <<>>
               /\ \A i \in SeatIdx : /\ seats'[i].chips = seats[i].chips
                                     /\ seats'[i].hands = <<>>]_vars

\* C13, the case: the betting deadline is due while a seat is occupied and no seat
\* has a bet, and its expiry leaves the table in betting.
C13_DeadlineWithoutBets ==
    /\ phase = "betting"
    /\ timerCallback = "onBettingEnd" /\ alarm = << BETTING_TIME, 0 >>
    /\ Occupied(World) # {} /\ ~SomeBet
    /\ ENABLED (Alarm /\ phase' = "betting" /\ alarm' = NoTime)

BettingStarts ==
    /\ phase' = "betting"
    /\ phase # "betting" \/ Alarm

\* C15: when a betting phase starts, every occupied seat whose lastBet and chips
\* are both positive has bet = min(lastBet, chips) and the betting deadline is armed
\* with its full duration; every other occupied seat has bet = 0; the start changes
\* no seat's chips or lastBet; a seat that stayed through the round has as lastBet
\* the bet it committed when betting closed; and a clear_bet leaves its seat's bet
\* and lastBet at 0.
C15_AutoBet ==
    [][/\ BettingStarts
            => \A i \in SeatIdx :
                  /\ seats'[i].playerId # NULL
                        => IF seats'[i].lastBet > 0 /\ seats'[i].chips > 0
                           THEN /\ seats'[i].bet = IF seats'[i].lastBet <= seats'[i].chips
                                                   THEN seats'[i].lastBet
                                                   ELSE seats'[i].chips
                                /\ alarm' = << BETTING_TIME >>
                                /\ timerCallback' = "onBettingEnd"
                           ELSE seats'[i].bet = 0
                  /\ (seats[i].playerId # NULL /\ seats'[i].playerId = seats[i].playerId)
                        => /\ seats'[i].chips = seats[i].chips
                           /\ seats'[i].lastBet = seats[i].lastBet
                  /\ (phase = "payout" /\ SameOwner(i) /\ seats[i].bet > 0)
                        => seats'[i].lastBet = seats[i].bet
       /\ \A c \in Conns :
            (ClearBetAccepts(World, c) /\ ClearBet(c))
            => /\ seats'[SeatOf(World, c)].bet = 0
               /\ seats'[SeatOf(World, c)].lastBet = 0]_vars

\* C15, the case: the betting after a round has started, a seat short of its last
\* bet has all its chips as bet, and the deadline is armed.
C15_AutoBetCapped ==
    /\ phase = "betting" /\ rounds >= 1 /\ lastEvent = "onAlarm"
    /\ alarm = << BETTING_TIME >> /\ timerCallback = "onBettingEnd"
    /\ \E i \in Occupied(World) :
          seats[i].chips > 0 /\ seats[i].chips < seats[i].lastBet /\ seats[i].bet = seats[i].chips

\* C15, another case: a seat that was given its last bet back has cleared it.
C15_AutoBetCleared ==
    /\ phase = "betting" /\ rounds >= 1 /\ lastEvent = "onMessage"
    /\ \E i \in Occupied(World) :
          seats[i].chips > 0 /\ seats[i].lastBet = 0 /\ seats[i].bet = 0

\* C16: whenever no seat is occupied (between events) the phase is waiting and no
\* deadline is pending, also after the last player left or disconnected in the
\* middle of a round, the owner of the active seat included.
C16_EmptyTableWaits ==
    Occupied(World) = {} => phase = "waiting" /\ alarm = NoTime /\ timerCallback = NULL

\* C16, the case: the close of the last connection has left an empty table in a
\* round's payout phase with a deadline pending.
C16_EmptyTableInPayout ==
    /\ Occupied(World) = {} /\ lastEvent = "onClose"
    /\ phase = "payout" /\ alarm # NoTime /\ timerCallback = "afterPayout"

\* the payout table as stated: what settlement adds to the chips for one hand
NaturalBlackjack(hand) == isBlackjack(hand.cards) /\ ~hand.isSplit

StatedPayout(hand, dealer) ==
    LET b == hand.bet
        player == calculateHandValue(hand.cards)
        house == calculateHandValue(dealer)
    IN  CASE hand.status \in {"busted", "surrendered"} -> 0
          [] OTHER ->
             CASE NaturalBlackjack(hand) /\ isBlackjack(dealer) -> b
               [] NaturalBlackjack(hand) /\ ~isBlackjack(dealer) -> b + (15 * b) \div 10
               [] ~NaturalBlackjack(hand) /\ isBlackjack(dealer) -> 0
               [] OTHER ->
                  IF house > 21 \/ player > house THEN 2 * b
                  ELSE IF player = house THEN b
                  ELSE 0

RECURSIVE StatedSeatPayout(_, _)
StatedSeatPayout(hands, dealer) ==
    IF hands = <<>> THEN 0
    ELSE StatedPayout(Head(hands), dealer) + StatedSeatPayout(Tail(hands), dealer)

\* C17: at settlement the chips of a seat grow, for each of its hands of bet b, by
\* 0 if the hand is busted or surrendered; b if player and dealer both have
\* blackjack; b + floor(1.5*b) if only the player has; 0 if only the dealer has;
\* 2*b if the dealer busted or the player's total is higher; b if the totals are
\* equal; 0 otherwise.
C17_PayoutTable ==
    phase = "payout" =>
        \A i \in SeatIdx :
            SameOwner(i) =>
                seats[i].chips = ledger[i].expected + StatedSeatPayout(seats[i].hands, dealerHand)

\* C17, the case: a settled blackjack on an odd bet against a dealer without one.
C17_BlackjackPaid ==
    /\ phase = "payout" /\ ~isBlackjack(dealerHand)
    /\ \E i \in SeatIdx :
          /\ SameOwner(i) /\ Len(seats[i].hands) = 1
          /\ NaturalBlackjack(seats[i].hands[1])
          /\ seats[i].hands[1].bet % 2 = 1
          /\ seats[i].chips = ledger[i].expected + seats[i].hands[1].bet
                                + (seats[i].hands[1].bet * 3 - 1) \div 2

\* the insurance stake seat i puts up in this step
StakeTaken(i) ==
    IF seats[i].insuranceBet = 0 /\ seats'[i].insuranceBet > 0
    THEN seats'[i].insuranceBet ELSE 0

\* the insurance decisions are open: the insurance deadline is pending
InsuranceOpen == phase = "insurance" /\ timerCallback = "onInsuranceTimeout"

\* the insurance phase is resolved in this step: the dealer's hand is checked and
\* the payout shortcut or the player turns are scheduled
InsuranceResolves ==
    InsuranceOpen /\ timerCallback' \in {"calculatePayouts", "startPlayerTurns"}

\* C18: accepting insurance takes a stake of floor(bet/2) from the chips of a seat
\* in the round; when the insurance phase resolves, a seat with a positive stake gets 3 times the
\* stake if the dealer holds blackjack and nothing if not, in the resolving event
\* itself, in which no hand is settled.
C18_InsuranceStakeAndPayout ==
    [][phase = "insurance" =>
          /\ \A i \in SeatIdx :
                (seats[i].playerId # NULL /\ seats'[i].playerId = seats[i].playerId
                    /\ seats[i].bet > 0)
                => /\ StakeTaken(i) > 0 => StakeTaken(i) = seats[i].bet \div 2
                   /\ seats'[i].chips
                         = seats[i].chips - StakeTaken(i)
                           + (IF InsuranceResolves /\ isBlackjack(dealerHand)
                                 /\ seats'[i].insuranceBet > 0
                              THEN 3 * seats'[i].insuranceBet ELSE 0)
          /\ \A c \in Conns :
                (InsuranceAccepts(World, c) /\ InsuranceMsg(c, TRUE)
                    /\ seats[SeatOf(World, c)].chips >= seats[SeatOf(World, c)].bet \div 2)
                => seats'[SeatOf(World, c)].insuranceBet = seats[SeatOf(World, c)].bet \div 2
          /\ InsuranceResolves
                => /\ payoutRuns' = payoutRuns
                   /\ IF isBlackjack(dealerHand)
                      THEN phase' = "dealer_turn" /\ timerCallback' = "calculatePayouts"
                      ELSE phase' = "insurance" /\ timerCallback' = "startPlayerTurns"]_vars

\* C18, the case: insurance has resolved against a dealer blackjack, a staked seat
\* has been paid, and the hands are not settled yet.
C18_InsurancePaid ==
    /\ phase = "dealer_turn" /\ timerCallback = "calculatePayouts" /\ payoutRuns = 0
    /\ isBlackjack(dealerHand)
    /\ \E i \in SeatIdx :
          /\ SameOwner(i) /\ seats[i].insuranceBet > 0
          /\ seats[i].chips = ledger[i].start - seats[i].bet + 2 * seats[i].insuranceBet

\* the seats that still owe an insurance decision
Undecided == { i \in SeatIdx : NeedsDecision(World, i) }

\* C19: the insurance phase is resolved only by the expiry of the insurance
\* deadline or by the decision of the last seat that owed one; at expiry the phase
\* is resolved and every undecided seat is treated as having declined (no stake is
\* taken from it).
C19_InsuranceResolution ==
    [][/\ InsuranceResolves
            => \/ lastEvent' = "onAlarm" /\ Alarm
               \/ \E c \in Conns :
                     /\ SeatOf(World, c) # -1
                     /\ Undecided \subseteq {SeatOf(World, c)}
                     /\ Insurance(c)
       /\ (InsuranceOpen /\ Alarm)
            => /\ InsuranceResolves
               /\ \A i \in Undecided :
                     /\ seats'[i].insuranceBet <= 0
                     /\ seats'[i].chips = seats[i].chips]_vars

\* C19, the case: the insurance deadline is due while one seat has decided and
\* another has not, and its expiry resolves the phase.
C19_ExpiryWithUndecided ==
    /\ InsuranceOpen /\ alarm # NoTime
    /\ Undecided # {}
    /\ \E i \in Occupied(World) : seats[i].bet > 0 /\ seats[i].insuranceBet # 0
    /\ ENABLED (Alarm /\ timerCallback' \in {"calculatePayouts", "startPlayerTurns"})

\* a hand's total as stated: every ace 1, and one ace 11 when that does not bust
RECURSIVE HardTotal(_)
HardTotal(cards) ==
    IF cards = <<>> THEN 0
    ELSE (IF Head(cards).rank = "A" THEN 1
          ELSE IF Head(cards).rank = "6" THEN 6
          ELSE 10) + HardTotal(Tail(cards))

StatedTotal(cards) ==
    IF (\E k \in 1 .. Len(cards) : cards[k].rank = "A") /\ HardTotal(cards) + 10 <= 21
    THEN HardTotal(cards) + 10
    ELSE HardTotal(cards)

\* the dealer's hand is played in this step (one step of playDealerHand)
DealerPlays ==
    /\ phase' = "dealer_turn" /\ Len(dealerHand) >= 2
    /\ \/ phase = "player_turn"
       \/ phase = "dealer_turn" /\ timerCallback = "playDealerHand" /\ lastEvent' = "onAlarm"
             /\ alarm' # NoTime

RanksOf(cards) == [k \in 1 .. Len(cards) |-> cards[k].rank]

\* C20: in a step of the dealer's play the dealer draws one card if the total of
\* its hand (aces 11 unless that busts) is below 17 and none if it is 17 or more,
\* soft 17 included; outside the initial deal the dealer's hand never grows
\* otherwise.
C20_DealerStandsOn17 ==
    [][/\ DealerPlays
            => IF StatedTotal(dealerHand) < 17
               THEN /\ Len(dealerHand') = Len(dealerHand) + 1
                    /\ timerCallback' = "playDealerHand"
               ELSE /\ RanksOf(dealerHand') = RanksOf(dealerHand)
                    /\ timerCallback' = "calculatePayouts"
       /\ (Len(dealerHand) >= 2 /\ Len(dealerHand') > Len(dealerHand))
            => /\ Len(dealerHand') = Len(dealerHand) + 1
               /\ StatedTotal(dealerHand) < 17
               /\ phase' = "dealer_turn"]_vars

\* C20, the case: the dealer has stood on a soft 17 (an ace and a six).
C20_StoodOnSoft17 ==
    /\ phase = "dealer_turn" /\ timerCallback = "calculatePayouts"
    /\ Len(dealerHand) = 2
    /\ {dealerHand[1].rank, dealerHand[2].rank} = {"A", "6"}
    /\ \E i \in Occupied(World) : StillIn(seats[i])

\* the dealer's second card lies face-up / face-down
HoleUp == Len(dealerHand) >= 2 /\ dealerHand[2].faceUp

HoleDown == Len(dealerHand) >= 2 /\ ~dealerHand[2].faceUp

\* C21: in the phases dealing, insurance and player_turn the dealer has two cards,
\* the second face-down; the second card is turned face-up only by a dealer-blackjack
\* shortcut (at the deal with a ten-value up-card, or when insurance resolves) or by
\* the start of the dealer turn; once face-up it stays face-up until the hand is
\* cleared for the next round, so it is turned once a round; and it is face-up
\* whenever the hands are settled.
C21_HoleCardTurnedOnce ==
    [][/\ phase' \in {"dealing", "insurance", "player_turn"}
            => /\ Len(dealerHand') = 2
               /\ dealerHand'[1].faceUp /\ ~dealerHand'[2].faceUp
       /\ (~HoleUp /\ HoleUp')
            => \/ /\ phase \in {"betting", "insurance"}
                  /\ isBlackjack(dealerHand')
                  /\ phase' = "dealer_turn" /\ timerCallback' = "calculatePayouts"
               \/ /\ phase \in {"dealing", "insurance", "player_turn"}
                  /\ HoleDown
                  /\ activePlayerIndex' = -1
                  /\ phase' \in {"dealer_turn", "payout"}
       /\ (HoleUp /\ dealerHand' # <<>>) => HoleUp'
       /\ payoutRuns' > payoutRuns => HoleUp']_vars

\* C21, the case: the deal found a dealer blackjack behind a ten-value up-card and
\* has turned the second card; the hands are about to be settled.
C21_TurnedByShortcut ==
    /\ phase = "dealer_turn" /\ timerCallback = "calculatePayouts" /\ payoutRuns = 0
    /\ HoleUp /\ isBlackjack(dealerHand)
    /\ dealerHand[1].rank \in TenValues
    /\ lastEvent = "onAlarm"

\* the number of cards of a shoe of numDecks decks (an arrangement is repeated)
ShoeLen(numDecks) == 6 * ((numDecks * NumSuits) \div 2)

RECURSIVE CardsIn(_)
CardsIn(hands) == IF hands = <<>> THEN 0 ELSE Len(Head(hands).cards) + CardsIn(Tail(hands))

RECURSIVE CardsOnSeats(_, _)
CardsOnSeats(ss, i) ==
    IF i >= NumSeats THEN 0 ELSE CardsIn(ss[i].hands) + CardsOnSeats(ss, i + 1)

\* the cards of the seats that are given up in this step
RECURSIVE CardsGivenUp(_, _, _)
CardsGivenUp(ss, tt, i) ==
    IF i >= NumSeats THEN 0
    ELSE (IF ss[i].playerId # NULL /\ tt[i].playerId = NULL THEN CardsIn(ss[i].hands) ELSE 0)
         + CardsGivenUp(ss, tt, i + 1)

\* the cards drawn in this step (no hand is cleared in it)
Drawn ==
    (Len(dealerHand') + CardsOnSeats(seats', 0))
    - (Len(dealerHand) + CardsOnSeats(seats, 0) - CardsGivenUp(seats, seats', 0))

\* the shoe is replaced by a new one in this step (a shoe only shrinks otherwise)
Reshuffled == Len(shoe') > Len(shoe)

\* C22: the shoe is replaced by a freshly shuffled one only when a betting phase
\* starts (from payout, waiting or betting, never from a phase of a round in play)
\* with needsReshuffle set, and then the betting starts with the full new shoe and
\* the flag lowered; the one other replacement is a draw that finds the shoe empty:
\* every card of the old shoe was dealt before the new one was opened.
C22_ReshuffleOnlyAtBetting ==
    [][Reshuffled
         => IF Len(shoe') = ShoeLen(ReshuffleDecks)
            THEN /\ needsReshuffle /\ ~needsReshuffle'
                 /\ phase \in {"payout", "waiting", "betting"}
                 /\ phase' = "betting"
                 /\ dealerHand' = <<>>
            ELSE /\ phase' \notin {"betting", "waiting"}
                 /\ Drawn = Len(shoe) + (ShoeLen(ReshuffleDecks) - Len(shoe'))]_vars

\* C22, the case: a round has passed the cut card and is settled with the old shoe
\* still in use, and the betting that follows starts with a new shoe.
C22_CutCardPassed ==
    /\ phase = "payout" /\ payoutRuns = 1
    /\ needsReshuffle /\ Len(shoe) <= cutCardIndex /\ Len(shoe) > 0
    /\ ENABLED (Alarm /\ phase' = "betting" /\ Len(shoe') = ShoeLen(ReshuffleDecks)
                  /\ ~needsReshuffle')

\* the number of cards the shoe in use had when it was opened: the cut card of the
\* initial shoe sits at 75% of its length, that of a later shoe at 80%
CurrentShoeLen ==
    IF cutCardIndex = (ShoeLen(InitialDecks) * 75) \div 100
    THEN ShoeLen(InitialDecks) ELSE ShoeLen(ReshuffleDecks)

\* the cards dealt from the shoe in use
Dealt == CurrentShoeLen - Len(shoe)

\* C23: needsReshuffle is set only when at least 75% of the cards of the shoe in
\* use have been dealt, for the initial shoe and for a reshuffled one.
C23_FlagAfterPenetration ==
    needsReshuffle => Dealt * 100 >= 75 * CurrentShoeLen

\* C23, the case: the flag is set on a reshuffled shoe of which less than a quarter
\* has been dealt.
C23_FlagOnFreshShoe ==
    /\ needsReshuffle
    /\ CurrentShoeLen = ShoeLen(ReshuffleDecks)
    /\ Dealt * 4 < CurrentShoeLen
    /\ Len(shoe) = cutCardIndex

\* the balance the storage sb holds under a name, -1 when it holds none
StoredOf(sb, name) == IF name \in DOMAIN sb THEN sb[name] ELSE -1

\* no other occupied seat of ss carries the display name of seat i
OnlyName(ss, i) ==
    \A j \in SeatIdx \ {i} : ss[j].playerId # NULL => ss[j].displayName # ss[i].displayName

JoinChipsOf(cb, name) == IF name \in DOMAIN cb THEN cb[name] ELSE INITIAL_CHIPS

\* some occupied seat carries the display name
Seated(name) == \E i \in Occupied(World) : seats[i].displayName = name

\* C25: a restart keeps the balance of every display name that is not seated: the
\* chips its player last held on leaving the table (leave_seat, spectate,
\* disconnect), an ATM refill included, are the chips a join under that name is
\* seated with after the restart.
C25_BalanceSurvivesRestart ==
    [][Restart
         => \A name \in DOMAIN chipBalances :
               ~Seated(name) => JoinChipsOf(chipBalances', name) = chipBalances[name]]_vars

\* C25, the case: a player has left the table in the middle of a round, and the
\* balance kept for the name differs from what a restart would seat it with.
C25_LeftWithUnsavedBalance ==
    \E name \in DOMAIN chipBalances :
        /\ ~Seated(name)
        /\ lastEvent \in {"onMessage", "onClose"}
        /\ chipBalances[name] # JoinChipsOf(storedBalances, name)
        /\ ENABLED (Restart /\ JoinChipsOf(chipBalances', name) # chipBalances[name])

\* the sender is seated with no chips and no bet
Broke(c) ==
    /\ SeatOf(World, c) # -1
    /\ seats[SeatOf(World, c)].chips = 0
    /\ seats[SeatOf(World, c)].bet = 0

\* the round state: everything of the table but the seats and the balances
roundVars == << phase, shoe, cutCardIndex, needsReshuffle, dealerHand,
                activePlayerIndex, activeHandIndex, timer, timerEndTime,
                runningCount, timerCallback, alarm >>

Penniless(c) ==
    /\ SeatOf(World, c) # -1
    /\ seats[SeatOf(World, c)].chips <= 0
    /\ seats[SeatOf(World, c)].bet <= 0

C26_AtmWithNegativeBet ==
    \E c \in Conns :
        /\ SeatOf(World, c) # -1
        /\ seats[SeatOf(World, c)].chips = 0
        /\ seats[SeatOf(World, c)].bet < 0
        /\ ENABLED (UseAtm(c) /\ atmUsage' # atmUsage)

\* the two cards of the hand are of equal rank or both worth ten
IsPair(hand) ==
    /\ Len(hand.cards) = 2
    /\ \/ hand.cards[1].rank = hand.cards[2].rank
       \/ hand.cards[1].rank \in TenValues /\ hand.cards[2].rank \in TenValues

\* the sender's active hand is a playing pair, its seat has fewer than MaxHands
\* hands and the chips for one more bet
MaySplitAsStated(c) ==
    /\ phase = "player_turn" /\ OwnsActiveHand(c)
    /\ ActiveHand.status = "playing" /\ IsPair(ActiveHand)
    /\ Len(seats[activePlayerIndex].hands) < MaxHands
    /\ seats[activePlayerIndex].chips >= ActiveHand.bet

PlayingHands(i) ==
    { h \in 1 .. Len(seats[i].hands) : seats[i].hands[h].status = "playing" }

\* C28 as stated: every seat has at most one playing hand.
C28_OnePlayingHandPerSeat ==
    \A i \in SeatIdx : Cardinality(PlayingHands(i)) <= 1

\* C28, amended: a seat has more than one playing hand only while it is the active
\* seat of player_turn and has split, and then they are split hands, the active hand
\* and hands after it, which await their turn; a hand before the active one is
\* never playing.
C28_PlayingHandsAwaitTurn ==
    \A i \in SeatIdx :
        /\ Cardinality(PlayingHands(i)) > 1
              => /\ phase = "player_turn" /\ i = activePlayerIndex
                 /\ activeHandIndex + 1 \in PlayingHands(i)
                 /\ \A h \in PlayingHands(i) : seats[i].hands[h].isSplit
        /\ (phase = "player_turn" /\ i = activePlayerIndex)
              => \A h \in PlayingHands(i) : h >= activeHandIndex + 1

\* C28, the case: a seat has split and both of its hands are playing, the first
\* being the active hand.
C28_BothSplitHandsPlaying ==
    /\ phase = "player_turn" /\ HasActiveHand /\ activeHandIndex = 0
    /\ PlayingHands(activePlayerIndex) = {1, 2}
    /\ timerCallback = "onTurnTimeout" /\ alarm = << TURN_TIME >>

\* the statuses a hand ends in
Terminal == {"standing", "busted", "blackjack", "surrendered"}

\* seat i keeps its player and its hands in this step (the round goes on for it)
StaysInRound(i) ==
    /\ seats[i].playerId # NULL /\ seats'[i].playerId = seats[i].playerId
    /\ seats'[i].hands # <<>>

\* where hand k of seat i is after this step: a split inserts the new hand right
\* after the active one
IndexAfter(i, k) ==
    IF Len(seats'[i].hands) > Len(seats[i].hands) /\ k > activeHandIndex + 1
    THEN k + 1 ELSE k

\* C29: a hand whose status is standing, busted, blackjack or surrendered keeps
\* that status, its cards and its bet in every step in which its seat keeps its
\* player and its hands, whatever the event (player action, turn timeout, close of
\* another connection, dealer play, settlement).
C29_TerminalStatusFinal ==
    [][\A i \in SeatIdx :
          StaysInRound(i)
          => \A k \in 1 .. Len(seats[i].hands) :
                seats[i].hands[k].status \in Terminal
                => /\ IndexAfter(i, k) <= Len(seats'[i].hands)
                   /\ seats'[i].hands[IndexAfter(i, k)] = seats[i].hands[k]]_vars

\* C29, the case: the first hand of a split seat is finished, the second is the
\* active hand, and a double on it is accepted.
C29_FinishedHandBesideActive ==
    \E c \in Conns :
        /\ phase = "player_turn" /\ OwnsActiveHand(c)
        /\ activeHandIndex = 1 /\ ActiveHand.status = "playing"
        /\ seats[activePlayerIndex].hands[1].status \in Terminal
        /\ ENABLED (Double(c) /\ seats' # seats)

\* the turn has left hand h of seat i in this step: another hand or seat is the
\* active one, or the dealer's turn (the settlement after it included) has begun
TurnLeft(i, h) ==
    \/ phase' = "player_turn" /\ << activePlayerIndex', activeHandIndex' + 1 >> # << i, h >>
    \/ phase' \in {"dealer_turn", "payout"} /\ activePlayerIndex' = -1

\* C30: an accepted hit appends one face-up card, the next of the shoe (of a new
\* shoe when the shoe is empty), to the active hand and to no other hand of a
\* player; above 21 the hand is busted and the turn leaves it, at 21 it is standing
\* and the turn leaves it, below 21 it stays the active playing hand with the full
\* turn deadline armed anew and nothing but that one card leaves the shoe; the
\* chips and bets of all seats and the bets of all hands are as before.
C30_HitDrawsOneCard ==
    [][\A c \in Conns :
          (HitAccepts(World, c) /\ Hit(c))
          => LET i == activePlayerIndex
                 h == activeHandIndex + 1
                 old == seats[i].hands[h]
                 new == seats'[i].hands[h]
                 total == StatedTotal(new.cards)
             IN  /\ Len(new.cards) = Len(old.cards) + 1
                 /\ SubSeq(new.cards, 1, Len(old.cards)) = old.cards
                 /\ new.cards[Len(new.cards)].faceUp
                 /\ Len(shoe) > 0 => new.cards[Len(new.cards)].rank = Head(shoe)
                 /\ Len(shoe) = 0 => Len(shoe') < ShoeLen(ReshuffleDecks)
                 /\ \A j \in SeatIdx :
                       /\ seats'[j].chips = seats[j].chips
                       /\ seats'[j].bet = seats[j].bet
                       /\ Len(seats'[j].hands) = Len(seats[j].hands)
                       /\ \A k \in 1 .. Len(seats[j].hands) :
                             /\ seats'[j].hands[k].bet = seats[j].hands[k].bet
                             /\ << j, k >> # << i, h >>
                                   => seats'[j].hands[k] = seats[j].hands[k]
                 /\ IF total > 21 THEN new.status = "busted" /\ TurnLeft(i, h)
                    ELSE IF total = 21 THEN new.status = "standing" /\ TurnLeft(i, h)
                    ELSE /\ new.status = "playing"
                         /\ phase' = "player_turn"
                         /\ activePlayerIndex' = i /\ activeHandIndex' + 1 = h
                         /\ timerCallback' = "onTurnTimeout" /\ alarm' = << TURN_TIME >>
                         /\ Len(shoe) > 0 => shoe' = Tail(shoe)
                         /\ dealerHand' = dealerHand]_vars

\* C30, the case: a hit has brought a hand of two kings to 21 with an ace; the hand
\* stands on three cards and the turn has left it.
C30_HitTo21 ==
    /\ lastEvent = "onMessage"
    /\ \E i \in Occupied(World) : \E h \in 1 .. Len(seats[i].hands) :
          /\ Len(seats[i].hands[h].cards) = 3
          /\ ~seats[i].hands[h].isDoubled
          /\ StatedTotal(seats[i].hands[h].cards) = 21
          /\ seats[i].hands[h].status = "standing"
          /\ phase = "player_turn" => << activePlayerIndex, activeHandIndex + 1 >> # << i, h >>

\* what the double of connection c is stated to require
MayDoubleAsStated(c) ==
    /\ phase = "player_turn"
    /\ OwnsActiveHand(c)
    /\ Len(ActiveHand.cards) = 2
    /\ ~ActiveHand.isDoubled
    /\ seats[activePlayerIndex].chips >= ActiveHand.bet

\* C31: a double changes the table only on the sender's active hand when it has
\* exactly two cards, is not doubled yet and the seat's chips are at least the
\* hand's bet; it then takes one more bet from the chips, doubles the hand's bet,
\* appends exactly one face-up card (the next of the shoe), makes the hand busted
\* above 21 and standing otherwise, and the turn leaves the hand; no other hand and
\* no other seat's chips change; and a doubled hand keeps its cards in every later
\* step of the round.
C31_DoubleOneCard ==
    [][/\ UNCHANGED tableVars
          \/ \A c \in Conns :
                Double(c)
                => /\ MayDoubleAsStated(c)
                   /\ LET i == activePlayerIndex
                          h == activeHandIndex + 1
                          old == seats[i].hands[h]
                          new == seats'[i].hands[h]
                      IN  /\ seats'[i].chips = seats[i].chips - old.bet
                          /\ new.bet = 2 * old.bet
                          /\ new.isDoubled
                          /\ Len(new.cards) = 3
                          /\ SubSeq(new.cards, 1, 2) = old.cards
                          /\ new.cards[3].faceUp
                          /\ Len(shoe) > 0 => new.cards[3].rank = Head(shoe)
                          /\ new.status = IF StatedTotal(new.cards) > 21
                                          THEN "busted" ELSE "standing"
                          /\ TurnLeft(i, h)
                          /\ \A j \in SeatIdx :
                                /\ j # i => seats'[j].chips = seats[j].chips
                                /\ Len(seats'[j].hands) = Len(seats[j].hands)
                                /\ \A k \in 1 .. Len(seats[j].hands) :
                                      << j, k >> # << i, h >>
                                         => seats'[j].hands[k].cards = seats[j].hands[k].cards
       /\ \A i \in SeatIdx :
             StaysInRound(i)
             => \A k \in 1 .. Len(seats[i].hands) :
                   seats[i].hands[k].isDoubled
                   => /\ IndexAfter(i, k) <= Len(seats'[i].hands)
                      /\ seats'[i].hands[IndexAfter(i, k)].cards = seats[i].hands[k].cards]_vars

\* C31, the case: a hand has been doubled and stands on three cards while the
\* round is still being played.
C31_DoubledHandStands ==
    /\ phase \in {"player_turn", "dealer_turn"}
    /\ \E i \in Occupied(World) : \E h \in 1 .. Len(seats[i].hands) :
          /\ seats[i].hands[h].isDoubled
          /\ Len(seats[i].hands[h].cards) = 3
          /\ seats[i].hands[h].status = "standing"
          /\ seats[i].hands[h].bet = 2 * seats[i].bet

\* what the split of connection c is stated to require
MaySplitHand(c) ==
    /\ phase = "player_turn"
    /\ OwnsActiveHand(c)
    /\ IsPair(ActiveHand)
    /\ ~ActiveHand.isSplit
    /\ seats[activePlayerIndex].chips >= ActiveHand.bet
    /\ Len(seats[activePlayerIndex].hands) < MaxHands

\* C32: a split changes the table only on the sender's active hand when it is a
\* two-card hand of equal rank or of two ten-value ranks, no split product, with
\* chips at least the hand's bet and fewer than 4 hands on the seat; it then takes
\* exactly one hand bet from the chips, puts one more hand with the same bet right
\* after the current one, leaves the current hand with its first card and the new
\* hand with its second card plus one fresh face-up card each (the next two of the
\* shoe, in that order), marks both isSplit and playing, keeps the hands before and
\* after them, the active seat and the active hand, and arms the full turn deadline.
C32_SplitMakesTwoHands ==
    [][UNCHANGED tableVars
       \/ \A c \in Conns :
             Split(c)
             => /\ MaySplitHand(c)
                /\ LET i == activePlayerIndex
                       h == activeHandIndex + 1
                       old == seats[i].hands[h]
                       before == seats[i].hands
                       after == seats'[i].hands
                   IN  /\ seats'[i].chips = seats[i].chips - old.bet
                       /\ Len(after) = Len(before) + 1
                       /\ SubSeq(after, 1, h - 1) = SubSeq(before, 1, h - 1)
                       /\ SubSeq(after, h + 2, Len(after)) = SubSeq(before, h + 1, Len(before))
                       /\ after[h].bet = old.bet /\ after[h + 1].bet = old.bet
                       /\ Len(after[h].cards) = 2 /\ Len(after[h + 1].cards) = 2
                       /\ after[h].cards[1] = old.cards[1]
                       /\ after[h + 1].cards[1] = old.cards[2]
                       /\ after[h].cards[2].faceUp /\ after[h + 1].cards[2].faceUp
                       /\ Len(shoe) >= 2
                             => /\ after[h].cards[2].rank = shoe[1]
                                /\ after[h + 1].cards[2].rank = shoe[2]
                                /\ shoe' = Tail(Tail(shoe))
                       /\ after[h].isSplit /\ after[h + 1].isSplit
                       /\ after[h].status = "playing" /\ after[h + 1].status = "playing"
                       /\ ~after[h].isDoubled /\ ~after[h + 1].isDoubled
                       /\ phase' = "player_turn"
                       /\ activePlayerIndex' = i /\ activeHandIndex' = activeHandIndex
                       /\ timerCallback' = "onTurnTimeout" /\ alarm' = << TURN_TIME >>
                       /\ \A j \in SeatIdx : j # i => seats'[j] = seats[j]]_vars

\* C32, the case: a pair of kings has been split into two hands of a king and a
\* fresh card each, the first of which is the active hand.
C32_PairSplit ==
    /\ phase = "player_turn" /\ HasActiveHand
    /\ lastEvent = "onMessage"
    /\ activeHandIndex = 0
    /\ Len(seats[activePlayerIndex].hands) = 2
    /\ \A h \in 1 .. 2 :
          /\ seats[activePlayerIndex].hands[h].isSplit
          /\ Len(seats[activePlayerIndex].hands[h].cards) = 2
          /\ seats[activePlayerIndex].hands[h].cards[1].rank = "K"
          /\ seats[activePlayerIndex].hands[h].status = "playing"
    /\ alarm = << TURN_TIME >>

\* the playing hands left, after this step, on the seats from seat i on
PlayingFrom(i) ==
    { jk \in SeatIdx \X (1 .. MaxHands) :
        /\ jk[1] >= i
        /\ seats'[jk[1]].playerId # NULL
        /\ jk[2] <= Len(seats'[jk[1]].hands)
        /\ seats'[jk[1]].hands[jk[2]].status = "playing" }

\* the turn advances in this step: the game stays in the round and the active
\* indices change or the player turns end
Advancement ==
    /\ phase = "player_turn" /\ activePlayerIndex \in SeatIdx
    /\ phase' \in {"player_turn", "dealer_turn", "payout"}
    /\ << phase', activePlayerIndex', activeHandIndex' >>
          # << phase, activePlayerIndex, activeHandIndex >>

\* the player turns begin in this step
TurnsBegin == timerCallback = "startPlayerTurns" /\ Alarm /\ phase' # phase

\* C33: in one round the turn only moves forward.  When the player turns begin,
\* the lowest seat with a playing hand is the active one, and the dealer's turn
\* begins instead if there is none.  At every advancement the dealer's turn begins
\* exactly if no hand on the current or a higher seat is playing; otherwise the
\* pair (active seat, active hand) is lexicographically greater than before and
\* designates a playing hand, so no seat is active again after a higher one was.
C33_TurnMovesForward ==
    [][/\ Advancement
          => /\ phase' \in {"dealer_turn", "payout"} <=> PlayingFrom(activePlayerIndex) = {}
             /\ phase' \in {"dealer_turn", "payout"} => activePlayerIndex' = -1
             /\ phase' = "player_turn"
                   => /\ \/ activePlayerIndex' > activePlayerIndex
                         \/ /\ activePlayerIndex' = activePlayerIndex
                            /\ activeHandIndex' > activeHandIndex
                      /\ << activePlayerIndex', activeHandIndex' + 1 >>
                            \in PlayingFrom(activePlayerIndex)
                      /\ \A jk \in PlayingFrom(activePlayerIndex) :
                            \/ jk[1] > activePlayerIndex'
                            \/ jk[1] = activePlayerIndex' /\ jk[2] >= activeHandIndex' + 1
       /\ TurnsBegin
          => /\ phase' \in {"dealer_turn", "payout"} <=> PlayingFrom(0) = {}
             /\ phase' = "player_turn"
                   => /\ << activePlayerIndex', activeHandIndex' + 1 >> \in PlayingFrom(0)
                      /\ \A jk \in PlayingFrom(0) : jk[1] >= activePlayerIndex']_vars

\* C33, the case: the turn has moved from seat 0, which is done, to a playing hand
\* of seat 1.
C33_TurnOnSecondSeat ==
    /\ phase = "player_turn"
    /\ activePlayerIndex = 1 /\ HasActiveHand /\ ActiveHand.status = "playing"
    /\ seats[0].playerId # NULL /\ seats[0].status = "done"
    /\ seats[0].hands # <<>>

\* C34: in phase player_turn the active seat index designates an occupied seat, the
\* active hand index a hand of that seat whose status is playing, and the turn
\* deadline is pending.
C34_ActiveHandPlaying ==
    phase = "player_turn"
    => /\ HasActiveHand
       /\ seats[activePlayerIndex].playerId # NULL
       /\ ActiveHand.status = "playing"
       /\ timerCallback = "onTurnTimeout" /\ alarm # NoTime

\* C34, the case: the owner of the active seat has given the seat up by message
\* during player_turn; the active index still designates the seat, now empty, while
\* another seat is occupied and the turn deadline runs on.
C34_ActiveSeatGivenUp ==
    /\ phase = "player_turn"
    /\ lastEvent = "onMessage"
    /\ activePlayerIndex \in SeatIdx
    /\ seats[activePlayerIndex] = createEmptySeat
    /\ Occupied(World) # {}
    /\ timerCallback = "onTurnTimeout" /\ alarm # NoTime

\* C34, apart from seats given up by message: while the active seat is occupied
\* and has hands, the active hand is a playing hand and the turn deadline is
\* pending.
C34_HeldActiveHandPlaying ==
    (phase = "player_turn" /\ activePlayerIndex \in SeatIdx
        /\ seats[activePlayerIndex].playerId # NULL
        /\ seats[activePlayerIndex].hands # <<>>)
    => /\ HasActiveHand
       /\ ActiveHand.status = "playing"
       /\ timerCallback = "onTurnTimeout" /\ alarm # NoTime

\* an occupied seat has a standing hand
SomeStanding ==
    \E i \in Occupied(World) : \E h \in 1 .. Len(seats[i].hands) :
        seats[i].hands[h].status = "standing"

\* the dealer's hand is finished: every card face-up and the total 17 or more
DealerFinished ==
    /\ Len(dealerHand) >= 2
    /\ \A k \in 1 .. Len(dealerHand) : dealerHand[k].faceUp
    /\ StatedTotal(dealerHand) >= 17

\* C35: when the hands are settled (the step in which calculatePayouts runs, and
\* the payout phase it leaves) and some hand of an occupied seat is standing, every
\* card of the dealer is face-up and the dealer's total is at least 17.
C35_StandingMeetsFinishedDealer ==
    [][(payoutRuns' > payoutRuns \/ phase' = "payout")
       => (SomeStanding => DealerFinished)']_vars

\* C35, the case: the hands have been settled with a standing hand against a
\* dealer who drew to 17 or more.
C35_SettledAfterDealerDrew ==
    /\ phase = "payout" /\ payoutRuns = 1
    /\ SomeStanding
    /\ Len(dealerHand) >= 3

\* C36: once a seat has accepted or declined insurance, a later insurance message
\* of its connection in the same round changes neither its chips nor its
\* insuranceBet nor the pending deadline.
C36_OneInsuranceDecision ==
    [][UNCHANGED tableVars
       \/ \A c \in Conns :
             (SeatOf(World, c) # -1 /\ ledger[SeatOf(World, c)].decided /\ Insurance(c))
             => /\ seats'[SeatOf(World, c)].chips = seats[SeatOf(World, c)].chips
                /\ seats'[SeatOf(World, c)].insuranceBet = seats[SeatOf(World, c)].insuranceBet
                /\ timerCallback' = timerCallback /\ alarm' = alarm]_vars

\* C36, the case: a seat has declined insurance by message, the dealer has no
\* blackjack, and before the player turns begin the seat's insurance message is
\* accepted once more and takes the insurance stake from its chips.
C36_DeclinedThenInsured ==
    \E c \in Conns :
        /\ phase = "insurance" /\ timerCallback = "startPlayerTurns"
        /\ SeatOf(World, c) # -1
        /\ ledger[SeatOf(World, c)].decided
        /\ seats[SeatOf(World, c)].insuranceBet = 0
        /\ ENABLED (InsuranceMsg(c, TRUE)
                      /\ seats'[SeatOf(World, c)].chips < seats[SeatOf(World, c)].chips)

\* a deadline with a callback is pending
DeadlinePending == timerCallback # NULL /\ alarm # NoTime

\* C37: between events state.timerEndTime is non-null exactly when a deadline with
\* a callback is pending; so it is in the state the snapshot is taken of at the end
\* of an accepted place_bet, of a round start with an auto-bet and of the start of
\* the player turns.
C37_EndTimeTellsDeadline == timerEndTime # NoTime <=> DeadlinePending

\* C37, the case: a bet has just been accepted and armed the betting deadline, and
\* state.timerEndTime is null.
C37_BetArmedWithoutEndTime ==
    /\ phase = "betting" /\ lastEvent = "onMessage"
    /\ timerCallback = "onBettingEnd" /\ alarm = << BETTING_TIME >>
    /\ \E i \in SeatIdx : HasBet(World, i)
    /\ timerEndTime = NoTime

\* C37, the cases of the round start with an auto-bet and of the start of the
\* player turns: the deadline is armed by the alarm's handler and
\* state.timerEndTime is null.
C37_TurnArmedWithoutEndTime ==
    /\ lastEvent = "onAlarm"
    /\ \/ phase = "player_turn" /\ timerCallback = "onTurnTimeout"
       \/ phase = "betting" /\ timerCallback = "onBettingEnd"
    /\ alarm # NoTime
    /\ timerEndTime = NoTime

\* state.timerEndTime is null between events, whatever is pending
C37_EndTimeAlwaysNull == timerEndTime = NoTime /\ timer = 0

\* C38: no two occupied seats carry the same display name, so the balance kept
\* under a name is the chips of at most one seat.
C38_OneSeatPerName ==
    \A i, j \in Occupied(World) : seats[i].displayName = seats[j].displayName => i = j

\* C38, the case: a second connection has joined under the name of a seated player
\* and both seats hold the one balance kept under that name as their chips.
C38_BalanceHeldTwice ==
    \E i, j \in Occupied(World) :
        /\ i # j
        /\ seats[i].displayName = seats[j].displayName
        /\ seats[i].playerId # seats[j].playerId
        /\ seats[i].displayName \in DOMAIN chipBalances
        /\ seats[i].chips = chipBalances[seats[i].displayName]
        /\ seats[j].chips = chipBalances[seats[i].displayName]
        /\ seats[i].chips > 0

\* the dealer's two initial cards are an ace and a ten-value card
DealerBlackjack ==
    /\ Len(dealerHand) = 2
    /\ \E k \in 1 .. 2 : dealerHand[k].rank = "A"
    /\ \E k \in 1 .. 2 : dealerHand[k].rank \in {"10", "J", "Q", "K"}

\* C39: in a round in which the dealer's two initial cards are a blackjack the
\* phase player_turn is never entered and no hit, stand, double, split or surrender
\* changes the table; from the deal or the insurance phase the round goes to the
\* dealer's turn with the hole card up and the settlement armed, and from there to
\* payout (or the table empties).
C39_NoTurnAgainstDealerBlackjack ==
    [][/\ DealerBlackjack' => phase' # "player_turn"
       /\ (DealerBlackjack /\ ~UNCHANGED tableVars) => \A c \in Conns : ~PlayerAction(c)
       /\ (DealerBlackjack /\ phase \in {"dealing", "insurance", "dealer_turn"} /\ phase' # phase)
          => /\ phase' \in {"dealer_turn", "payout", "waiting"}
             /\ phase' = "dealer_turn" => HoleUp' /\ timerCallback' = "calculatePayouts"
             /\ phase' = "waiting" => Occupied(World)' = {}
             /\ phase' = "payout" => phase = "dealer_turn" /\ payoutRuns' = 1]_vars

\* C39, the case: a round with a dealer blackjack has been settled while a hand of
\* an occupied seat is still playing, no turn having been given.
C39_SettledWithoutTurn ==
    /\ phase = "payout" /\ payoutRuns = 1
    /\ DealerBlackjack
    /\ \E i \in Occupied(World) :
          /\ seats[i].hands # <<>>
          /\ seats[i].hands[1].status = "playing"
          /\ Len(seats[i].hands[1].cards) = 2

\* the seats that were dealt cards, in table order
Bettors == seatsWithBets(World)

\* the first deal from the first shoe is on the table untouched: every bettor holds
\* its two cards, the dealer an up-card and the hole card face-down
FreshDeal ==
    /\ phase \in {"dealing", "insurance", "player_turn"}
    /\ HoleDown /\ Len(dealerHand) = 2
    /\ rounds = 1
    /\ Len(shoe) + 2 * Len(Bettors) + 2 = ShoeLen(InitialDecks)
    /\ \A k \in 1 .. Len(Bettors) :
          /\ seats[Bettors[k]].playerId # NULL
          /\ Len(seats[Bettors[k]].hands) = 1
          /\ Len(seats[Bettors[k]].hands[1].cards) = 2

\* the place of the hole card in the order of the deal
HolePlace == 2 * Len(Bettors) + 2

\* the ranks in the order they left the shoe: a card to every bettor, the dealer's
\* up-card, a second card to every bettor, the hole card
DealtRanks ==
    [k \in 1 .. HolePlace |->
        IF k <= Len(Bettors) THEN seats[Bettors[k]].hands[1].cards[1].rank
        ELSE IF k = Len(Bettors) + 1 THEN dealerHand[1].rank
        ELSE IF k < HolePlace THEN seats[Bettors[k - Len(Bettors) - 1]].hands[1].cards[2].rank
        ELSE dealerHand[2].rank]

\* the shoe of this run as it was shuffled
ThisDeal == DealtRanks \o shoe

\* the shoes of the runs that differ from this one in hidden cards only: the same
\* cards face-up, another hole card or another order of the undealt cards
OtherDeals ==
    { b \in createShoe(InitialDecks) : \A k \in 1 .. (HolePlace - 1) : b[k] = ThisDeal[k] }

\* with hole card r the round takes the course of this run up to here: the hole
\* card is the same, or it has not been looked at yet (no blackjack either way, or
\* the insurance decisions are still awaited)
SameCourse(r) ==
    \/ r = dealerHand[2].rank
    \/ InsuranceOpen
    \/ /\ ~isBlackjack(dealerHand)
       /\ ~isBlackjack([dealerHand EXCEPT ![2].rank = r])

\* the table of the run dealt from shoe b, at the point this run is at
IfDealt(b) ==
    [World EXCEPT !.dealerHand[2].rank = b[HolePlace],
                  !.shoe = SubSeq(b, HolePlace + 1, Len(b)),
                  !.runningCount = @ - CountDelta(dealerHand[2].rank)
                                     + CountDelta(b[HolePlace])]

\* C40: while the hole card is face-down (dealing, insurance, player_turn) the
\* state_update snapshot is the same in two runs that differ only in the rank of
\* the hole card or in the order of the undealt cards of the shoe.
C40_SnapshotHidesHiddenCards ==
    FreshDeal
    => \A b \in OtherDeals :
          SameCourse(b[HolePlace]) => Snapshot(IfDealt(b)) = Snapshot(World)

\* C40, the case: the hole card is face-down after the first deal, this run's shoe
\* is one the table can be dealt from, and another shuffle with the same cards
\* face-up has the undealt cards in another order, which the snapshot shows.
C40_UndealtOrderInSnapshot ==
    /\ FreshDeal
    /\ ThisDeal \in createShoe(InitialDecks)
    /\ \E b \in OtherDeals :
          /\ b # ThisDeal
          /\ SameCourse(b[HolePlace])
          /\ Snapshot(IfDealt(b)).shoe # Snapshot(World).shoe
          /\ Len(Snapshot(IfDealt(b)).shoe) = Len(Snapshot(World).shoe)

====
